---------------------------- MODULE Spec2Model ----------------------------
(***************************************************************************)
(* The three scoring engines of the guardchain AI service:                 *)
(*   DocumentValidator   (services/document_validator.py)                  *)
(*   FraudDetectionService (services/fraud_detection_service.py)           *)
(*   ImageAnalysisService  (services/image_analysis_service.py)            *)
(* with the key check of utils/auth.py and the endpoint handlers of        *)
(* main.py that call them.                                                 *)
(*                                                                         *)
(* Numbers.  Scores are Python floats in the source.  Here a score is an   *)
(* integer number of 1/Scale units (fixed point), so that 1.0 is Scale.    *)
(* Every deduction, weight and threshold of the source is a multiple of    *)
(* 0.05 and is exact in these units; quotients are rounded down to the     *)
(* unit.  Monetary amounts are integers in cents.                          *)
(*                                                                         *)
(* Text.  A text is a sequence of phrases joined by single spaces.  For    *)
(* each phrase the table below records what the regular expressions and    *)
(* substring tests of the source find in it (computed by running those     *)
(* expressions on the literal phrase given in the comment).  No pattern    *)
(* of the source matches across the boundary of two of these phrases, so   *)
(* what is found in a text is the concatenation of what is found in its    *)
(* phrases.                                                                *)
(***************************************************************************)
EXTENDS Integers, Sequences, FiniteSets, TLC

VARIABLES doc, fraud, image, services, calls, auth, http

vars == <<doc, fraud, image, services, calls, auth, http>>

-----------------------------------------------------------------------------
(* Bounds of the model *)

\* longest text, in phrases, handed to validate_document
MaxDocPhrases == 3

\* longest narrative, in phrases, handed to analyze_text
MaxNarrPhrases == 2

-----------------------------------------------------------------------------
(* Arithmetic *)

\* 1.0 in fixed-point units
Scale == 100 * 100

Min(a, b) == IF a <= b THEN a ELSE b

Max(a, b) == IF a >= b THEN a ELSE b

Abs(a) == IF a < 0 THEN -a ELSE a

RECURSIVE SumSeq(_, _)
\* sum(F(x) for x in s)
SumSeq(F(_), s) == IF s = <<>> THEN 0 ELSE F(Head(s)) + SumSeq(F, Tail(s))

RECURSIVE FlatMap(_, _)
\* the lists F(x), x in s, concatenated in order
FlatMap(F(_), s) == IF s = <<>> THEN <<>> ELSE F(Head(s)) \o FlatMap(F, Tail(s))

RECURSIVE SeqMax(_)
SeqMax(s) == IF Len(s) = 1 THEN s[1] ELSE Max(s[1], SeqMax(Tail(s)))

RECURSIVE SeqMin(_)
SeqMin(s) == IF Len(s) = 1 THEN s[1] ELSE Min(s[1], SeqMin(Tail(s)))

SetMax(S) == CHOOSE x \in S : \A y \in S : y <= x

SetMin(S) == CHOOSE x \in S : \A y \in S : x <= y

\* the sequences over S of length at most n
SeqsUpTo(S, n) == UNION {[1..k -> S] : k \in 0..n}

\* n / d in fixed-point units, rounded down (n >= 0, d > 0), by long division
\* two decimal digits at a time
Ratio(n, d) ==
    LET r0 == n % d
        r1 == (r0 * 100) % d
    IN  (n \div d) * Scale + ((r0 * 100) \div d) * 100 + ((r1 * 100) \div d)

\* dict.get(key, default)
Get(d, key, default) == IF key \in DOMAIN d THEN d[key] ELSE default

RECURSIVE DictUpdate(_, _)
\* dict.update(pairs): the keys of pairs, in order, set or overwritten in d
DictUpdate(d, pairs) ==
    IF pairs = <<>> THEN d
    ELSE LET k == Head(pairs)[1]
             v == Head(pairs)[2]
         IN  DictUpdate((k :> v) @@ d, Tail(pairs))

-----------------------------------------------------------------------------
(* Calendar: datetime(year, month, day) and differences of dates in days *)

IsLeap(y) == (y % 4 = 0 /\ y % 100 # 0) \/ y % 400 = 0

DaysInMonth(y, m) ==
    CASE m \in {1, 3, 5, 7, 8, 10, 12} -> 31
      [] m \in {4, 6, 9, 11} -> 30
      [] OTHER -> IF IsLeap(y) THEN 29 ELSE 28

\* datetime(y, m, d) raises ValueError unless this holds
ValidDate(y, m, d) == y \in 1..9999 /\ m \in 1..12 /\ d >= 1 /\ d <= DaysInMonth(y, m)

RECURSIVE DaysBeforeMonth(_, _)
DaysBeforeMonth(y, m) == IF m = 1 THEN 0 ELSE DaysInMonth(y, m - 1) + DaysBeforeMonth(y, m - 1)

\* datetime(y, m, d).toordinal(): the day number of a valid date
ToOrdinal(y, m, d) ==
    365 * (y - 1) + ((y - 1) \div 4) - ((y - 1) \div 100) + ((y - 1) \div 400)
        + DaysBeforeMonth(y, m) + d

\* The date strings of the phrases, split as the source splits them:
\* date_str.split('/') and int() of each part.  A string that does not
\* split into three parts has parts <<>>.
DateParts(date_str) ==
    CASE date_str = "01/15/2024" -> <<1, 15, 2024>>
      [] date_str = "03/01/2025" -> <<3, 1, 2025>>
      [] date_str = "12/20/2026" -> <<12, 20, 2026>>
      [] date_str = "2025-03-01" -> <<>>
      [] date_str = "2024-01-26" -> <<>>

-----------------------------------------------------------------------------
(* Document phrases *)

DocVocab ==
    {"pPatient", "pProvider", "pService", "pFollowUp", "pRecheck", "pAdmit", "pLorem", "pDraft", "pVehicle", "pInvoice"}

NarrVocab ==
    {"nEmergency", "nRoutine", "nPaid", "nFake", "nUrgent", "nProse", "nCar", "nPhone", "nCashOnly"}

NoPhrase ==
    [chars |-> 0, nwords |-> 0, wordset |-> {}, has |-> {}, amtFmt |-> 0, fmtDates |-> <<>>,
         placeholders |-> {}, numComma |-> 0, numDot |-> 0, special |-> 0, rep6 |-> FALSE,
         amounts |-> <<>>, xdates |-> {}, icd |-> FALSE, cpt |-> FALSE, vin |-> <<>>,
         emails |-> <<>>, phones |-> <<>>, patient1 |-> <<>>, patient2 |-> <<>>,
         service1 |-> <<>>, service2 |-> <<>>, provider1 |-> <<>>, provider2 |-> <<>>,
         invoice1 |-> <<>>, invoice2 |-> <<>>, vendor1 |-> <<>>, vendor2 |-> <<>>,
         roundNums |-> 0, dupAmts |-> <<>>, missing |-> {}, vehicle1 |-> <<>>,
         vehicle2 |-> <<>>, damage1 |-> <<>>, damage2 |-> <<>>]

\* what the string tests of the source find in each phrase
PhraseTable ==
    \* Patient: John Smith.
    ("pPatient" :>
        [NoPhrase EXCEPT !.chars = 20, !.nwords = 3, !.wordset = {"john", "patient:", "smith."},
         !.has = {"patient"}, !.special = 2, !.patient1 = <<"John Smith">>]) @@
    \* Provider: John Smith.
    ("pProvider" :>
        [NoPhrase EXCEPT !.chars = 21, !.nwords = 3, !.wordset = {"john", "provider:", "smith."},
         !.has = {"provider"}, !.special = 2, !.provider1 = <<"John Smith">>]) @@
    \* Service: 01/15/2024 medical treatment bill total $150.00 code 99213.
    ("pService" :>
        [NoPhrase EXCEPT !.chars = 68, !.nwords = 9,
         !.wordset = {"$150.00", "01/15/2024", "99213.", "bill", "code", "medical", "service:", "total", "treatment"},
         !.has = {"bill", "medical", "service", "total", "treatment"}, !.amtFmt = 1,
         !.fmtDates = <<"01/15/2024">>, !.numDot = 2, !.special = 6, !.amounts = <<15000>>,
         !.xdates = {"01/15/2024"}, !.cpt = TRUE, !.service1 = <<"01/15/2024">>,
         !.dupAmts = <<"$150.00">>, !.vehicle1 = <<"2024", "medical", "treatment">>]) @@
    \* Follow-up 03/01/2025 charge $900.00 paid.
    ("pFollowUp" :>
        [NoPhrase EXCEPT !.chars = 41, !.nwords = 5,
         !.wordset = {"$900.00", "03/01/2025", "charge", "follow-up", "paid."},
         !.has = {"charge", "paid"}, !.amtFmt = 1, !.fmtDates = <<"03/01/2025">>, !.numDot = 1,
         !.special = 6, !.amounts = <<90000>>, !.xdates = {"03/01/2025"}, !.roundNums = 1,
         !.dupAmts = <<"$900.00">>]) @@
    \* Rechecked 2025-03-01.
    ("pRecheck" :>
        [NoPhrase EXCEPT !.chars = 21, !.nwords = 2, !.wordset = {"2025-03-01.", "rechecked"}, !.numDot = 1,
         !.special = 3, !.xdates = {"2025-03-01"}]) @@
    \* Admitted 2024-01-26.
    ("pAdmit" :>
        [NoPhrase EXCEPT !.chars = 20, !.nwords = 2, !.wordset = {"2024-01-26.", "admitted"}, !.numDot = 1,
         !.special = 3, !.xdates = {"2024-01-26"}]) @@
    \* lorem ipsum sample
    ("pLorem" :>
        [NoPhrase EXCEPT !.chars = 18, !.nwords = 3, !.wordset = {"ipsum", "lorem", "sample"},
         !.has = {"lorem ipsum"}, !.placeholders = {5, 6}]) @@
    \* draft
    ("pDraft" :>
        [NoPhrase EXCEPT !.chars = 5, !.nwords = 1, !.wordset = {"draft"}, !.has = {"draft"}]) @@
    \* Vehicle: Honda Civic 1HGCM82633A004352 damage repair estimate parts labor.
    ("pVehicle" :>
        [NoPhrase EXCEPT !.chars = 74, !.nwords = 9,
         !.wordset = {"1hgcm82633a004352", "civic", "damage", "estimate", "honda", "labor.", "parts", "repair", "vehicle:"},
         !.has = {"damage", "estimate", "labor", "parts", "repair", "vehicle"}, !.special = 2,
         !.vin = <<"1HGCM82633A004352">>, !.vehicle1 = <<"4352", "damage", "repair">>,
         !.vehicle2 = <<"Honda Civic 1HGCM82633A004352 damage repair estimate parts labor">>]) @@
    \* Invoice #A17 From: Acme Corp. due 12/20/2026.
    ("pInvoice" :>
        [NoPhrase EXCEPT !.chars = 45, !.nwords = 7,
         !.wordset = {"#a17", "12/20/2026.", "acme", "corp.", "due", "from:", "invoice"},
         !.has = {"due", "from", "invoice"}, !.fmtDates = <<"12/20/2026">>, !.numDot = 1,
         !.special = 6, !.xdates = {"12/20/2026"}, !.icd = TRUE, !.invoice1 = <<"A17">>,
         !.vendor1 = <<"Acme Corp">>]) @@
    \* Emergency surgery needed ASAP, cash only, no receipt
    ("nEmergency" :>
        [NoPhrase EXCEPT !.chars = 52, !.nwords = 8,
         !.wordset = {"asap,", "cash", "emergency", "needed", "no", "only,", "receipt", "surgery"},
         !.has = {"asap", "cash only", "emergency", "no receipt", "receipt", "surgery"},
         !.special = 2]) @@
    \* Routine checkup billed $1,234.56 on 01/15/2024.
    ("nRoutine" :>
        [NoPhrase EXCEPT !.chars = 47, !.nwords = 6,
         !.wordset = {"$1,234.56", "01/15/2024.", "billed", "checkup", "on", "routine"},
         !.has = {"bill", "routine"}, !.fmtDates = <<"01/15/2024">>, !.numComma = 1,
         !.numDot = 1, !.special = 6, !.amounts = <<123456>>, !.xdates = {"01/15/2024"},
         !.dupAmts = <<"$1">>]) @@
    \* Paid $5,000.00 twice, $5,000.00 on 03/01/2025, invoice N/A.
    ("nPaid" :>
        [NoPhrase EXCEPT !.chars = 59, !.nwords = 8,
         !.wordset = {"$5,000.00", "03/01/2025,", "invoice", "n/a.", "on", "paid", "twice,"},
         !.has = {"invoice", "paid"}, !.fmtDates = <<"03/01/2025">>, !.numComma = 3,
         !.special = 12, !.amounts = <<500000, 500000>>, !.xdates = {"03/01/2025"},
         !.invoice1 = <<"N">>, !.roundNums = 2, !.dupAmts = <<"$5", "$5">>, !.missing = {1}]) @@
    \* fake
    ("nFake" :>
        [NoPhrase EXCEPT !.chars = 4, !.nwords = 1, !.wordset = {"fake"}, !.has = {"fake"}]) @@
    \* urgent
    ("nUrgent" :>
        [NoPhrase EXCEPT !.chars = 6, !.nwords = 1, !.wordset = {"urgent"}, !.has = {"urgent"}]) @@
    \* The insured reported the loss to the carrier in writing and attached every supporting document that was asked for.
    ("nProse" :>
        [NoPhrase EXCEPT !.chars = 114, !.nwords = 19,
         !.wordset = {"and", "asked", "attached", "carrier", "document", "every", "for.", "in", "insured", "loss", "reported", "supporting", "that", "the", "to", "was", "writing"},
         !.has = {"car", "report"}, !.special = 1]) @@
    \* Minor damage at low speed in the parking lot but extensive damage and a total loss.
    ("nCar" :>
        [NoPhrase EXCEPT !.chars = 83, !.nwords = 16,
         !.wordset = {"a", "and", "at", "but", "damage", "extensive", "in", "loss.", "lot", "low", "minor", "parking", "speed", "the", "total"},
         !.has = {"damage", "extensive damage", "low speed", "minor", "minor damage", "parking lot", "total", "total loss"},
         !.special = 1]) @@
    \* The new phone was working but arrived broken.
    ("nPhone" :>
        [NoPhrase EXCEPT !.chars = 45, !.nwords = 8,
         !.wordset = {"arrived", "broken.", "but", "new", "phone", "the", "was", "working"},
         !.has = {"broken", "new", "working"}, !.special = 1]) @@
    \* cash only
    ("nCashOnly" :>
        [NoPhrase EXCEPT !.chars = 9, !.nwords = 2, !.wordset = {"cash", "only"}, !.has = {"cash only"}])

Phrase(p) == PhraseTable[p]

-----------------------------------------------------------------------------
(* What the source computes on a text (a sequence of phrases) *)

\* len(text): the phrases and the single spaces between them
TextLen(text) ==
    IF text = <<>> THEN 0 ELSE SumSeq(LAMBDA p : Phrase(p).chars, text) + Len(text) - 1

\* len(text.split())
WordCount(text) == SumSeq(LAMBDA p : Phrase(p).nwords, text)

\* set(text.lower().split())
UniqueWords(text) == UNION {Phrase(text[i]).wordset : i \in 1..Len(text)}

\* needle in text.lower()
Contains(text, needle) == \E i \in 1..Len(text) : needle \in Phrase(text[i]).has

\* any(keyword in text_lower for keyword in keywords)
ContainsAny(text, keywords) == \E k \in keywords : Contains(text, k)

RECURSIVE FirstMatch(_, _)
\* re.search over the text: what the leftmost phrase that matches captures
FirstMatch(F(_), text) ==
    IF text = <<>> THEN <<>>
    ELSE IF F(Head(text)) # <<>> THEN F(Head(text)) ELSE FirstMatch(F, Tail(text))

\* An issue string: its fixed wording and the value formatted into it
\* ("" when none, or when the value is a number the model leaves out).
Issue(kind, arg) == <<kind, arg>>

-----------------------------------------------------------------------------
(* DocumentValidator *)

RuleTypes == {"medical_bill", "vehicle_estimate", "invoice", "receipt", "police_report", "general"}

\* self.validation_rules; amount_pattern and date_pattern record whether the
\* entry has the key (the patterns are the same for every entry that has one)
validation_rules ==
    [t \in RuleTypes |->
      CASE t = "medical_bill" ->
             [required_fields |-> <<"patient_name", "service_date", "amount", "provider">>,
              amount_pattern |-> TRUE, date_pattern |-> TRUE, min_text_length |-> 50,
              expected_keywords |-> <<"patient", "service", "bill", "medical", "treatment">>]
        [] t = "vehicle_estimate" ->
             [required_fields |-> <<"vehicle_info", "damage_description", "estimate_amount">>,
              amount_pattern |-> TRUE, date_pattern |-> TRUE, min_text_length |-> 100,
              expected_keywords |-> <<"vehicle", "repair", "estimate", "damage", "parts", "labor">>]
        [] t = "invoice" ->
             [required_fields |-> <<"invoice_number", "date", "amount", "vendor">>,
              amount_pattern |-> TRUE, date_pattern |-> TRUE, min_text_length |-> 30,
              expected_keywords |-> <<"invoice", "bill", "payment", "total", "due">>]
        [] t = "receipt" ->
             [required_fields |-> <<"date", "amount", "merchant">>,
              amount_pattern |-> TRUE, date_pattern |-> TRUE, min_text_length |-> 20,
              expected_keywords |-> <<"receipt", "total", "paid", "transaction">>]
        [] t = "police_report" ->
             [required_fields |-> <<"report_number", "date", "incident_description">>,
              amount_pattern |-> FALSE, date_pattern |-> TRUE, min_text_length |-> 100,
              expected_keywords |-> <<"police", "report", "incident", "officer", "case", "accident">>]
        [] t = "general" ->
             [required_fields |-> <<>>,
              amount_pattern |-> FALSE, date_pattern |-> FALSE, min_text_length |-> 10,
              expected_keywords |-> <<>>]]

suspicious_indicators ==
    <<"lorem ipsum", "sample text", "placeholder", "test document", "draft", "copy of copy",
      "duplicate">>

\* _validate_text_content: the dict it returns, as its (key, value) pairs
validate_text_content(text, rules) ==
    LET min_length == rules.min_text_length
        too_short ==
            IF TextLen(text) < min_length THEN <<Issue("Text too short", "")>> ELSE <<>>
        suspicious ==
            FlatMap(LAMBDA indicator :
                      IF Contains(text, indicator)
                      THEN <<Issue("Suspicious content detected", indicator)>> ELSE <<>>,
                    suspicious_indicators)
        expected_keywords == rules.expected_keywords
        found_keywords == SelectSeq(expected_keywords, LAMBDA kw : Contains(text, kw))
        \* len(found_keywords) < len(expected_keywords) * 0.5
        keywords ==
            IF expected_keywords # <<>> /\ 2 * Len(found_keywords) < Len(expected_keywords)
            THEN <<Issue("Missing expected keywords", "")>> ELSE <<>>
        word_count == WordCount(text)
        few_words == IF word_count < 5 THEN <<Issue("Text has too few words", "")>> ELSE <<>>
        unique_words == Cardinality(UniqueWords(text))
        \* repetition_ratio = 1 - len(unique_words) / len(words) if words else 0
        repetition_ratio ==
            IF word_count > 0 THEN Scale - (unique_words * Scale) \div word_count ELSE 0
        \* repetition_ratio > 0.7
        repetition ==
            IF word_count > 0 /\ 10 * (word_count - unique_words) > 7 * word_count
            THEN <<Issue("Excessive word repetition detected", "")>> ELSE <<>>
    IN  << <<"text_validation_issues",
             too_short \o suspicious \o keywords \o few_words \o repetition>>,
           <<"text_stats",
             [length |-> TextLen(text), word_count |-> word_count,
              unique_words |-> unique_words, repetition_ratio |-> repetition_ratio]>> >>

\* _is_reasonable_date; now is the ordinal of the day of datetime.now().
\* A date is a midnight, so it is later than now + 30 days exactly when its
\* day is later than the day of now by more than 30.
is_reasonable_date(date_str, now) ==
    LET parts == DateParts(date_str)
    IN  IF Len(parts) # 3 THEN FALSE
        ELSE LET month == parts[1]
                 day == parts[2]
                 year == parts[3]
             IN  /\ month \in 1..12
                 /\ day \in 1..31
                 /\ year \in 1900..2030
                 /\ ValidDate(year, month, day)
                 /\ ~(ToOrdinal(year, month, day) > now + 30)

\* _validate_medical_bill_structure
validate_medical_bill_structure(text) ==
    LET medical_elements ==
            << <<"patient information", {"patient", "name"}>>,
               <<"provider information", {"provider", "doctor", "hospital", "clinic"}>>,
               <<"service information", {"service", "treatment", "procedure"}>>,
               <<"billing information", {"bill", "charge", "amount", "total"}>> >>
        elements ==
            FlatMap(LAMBDA e : IF ~ContainsAny(text, e[2])
                               THEN <<Issue("Missing section", e[1])>> ELSE <<>>,
                    medical_elements)
        icd_codes == \E i \in 1..Len(text) : Phrase(text[i]).icd
        cpt_codes == \E i \in 1..Len(text) : Phrase(text[i]).cpt
        codes ==
            IF ~icd_codes /\ ~cpt_codes
            THEN <<Issue("No medical billing codes (ICD/CPT) found", "")>> ELSE <<>>
    IN  elements \o codes

\* _validate_vehicle_estimate_structure
validate_vehicle_estimate_structure(text) ==
    LET vehicle_elements ==
            << <<"vehicle information",
                 {"vehicle", "car", "truck", "vin", "year", "make", "model"}>>,
               <<"damage description", {"damage", "repair", "replace", "parts"}>>,
               <<"cost breakdown", {"labor", "parts", "total", "estimate"}>> >>
        elements ==
            FlatMap(LAMBDA e : IF ~ContainsAny(text, e[2])
                               THEN <<Issue("Missing section", e[1])>> ELSE <<>>,
                    vehicle_elements)
        vin == IF FirstMatch(LAMBDA p : Phrase(p).vin, text) = <<>>
               THEN <<Issue("No VIN number found", "")>> ELSE <<>>
    IN  elements \o vin

\* _validate_invoice_structure
validate_invoice_structure(text) ==
    LET invoice_elements ==
            << <<"header", {"invoice", "receipt", "bill"}>>,
               <<"vendor info", {"from", "vendor", "company", "business"}>>,
               <<"amount", {"total", "amount", "due", "paid"}>> >>
    IN  FlatMap(LAMBDA e : IF ~ContainsAny(text, e[2])
                           THEN <<Issue("Missing information", e[1])>> ELSE <<>>,
                invoice_elements)

\* _validate_document_structure
validate_document_structure(text, document_type, rules, now) ==
    LET amounts == SumSeq(LAMBDA p : Phrase(p).amtFmt, text)
        amount_issues ==
            IF ~rules.amount_pattern THEN <<>>
            ELSE IF amounts = 0
                 THEN <<Issue("No monetary amounts found in expected format", "")>>
                 ELSE IF amounts > 10
                      THEN <<Issue("Too many monetary amounts detected (possible OCR errors)", "")>>
                      ELSE <<>>
        dates == FlatMap(LAMBDA p : Phrase(p).fmtDates, text)
        date_issues ==
            IF ~rules.date_pattern THEN <<>>
            ELSE IF dates = <<>>
                 THEN <<Issue("No dates found in expected format", "")>>
                 ELSE FlatMap(LAMBDA date_str :
                                IF ~is_reasonable_date(date_str, now)
                                THEN <<Issue("Unreasonable date detected", date_str)>>
                                ELSE <<>>,
                              dates)
        structure_issues ==
            CASE document_type = "medical_bill" -> validate_medical_bill_structure(text)
              [] document_type = "vehicle_estimate" -> validate_vehicle_estimate_structure(text)
              [] document_type \in {"invoice", "receipt"} -> validate_invoice_structure(text)
              [] OTHER -> <<>>
    IN  << <<"structure_validation_issues", amount_issues \o date_issues \o structure_issues>> >>

\* _extract_amounts: the amounts, in cents, in the order found
extract_amounts(text) == FlatMap(LAMBDA p : Phrase(p).amounts, text)

\* _extract_dates: list(set(dates)); the order of that list is not used
extract_dates(text) == UNION {Phrase(text[i]).xdates : i \in 1..Len(text)}

\* _has_formatting_inconsistencies.  The text is one line, so the variance
\* of the indentation is 0 (it is 0 for every text: the module never
\* imports np, and the source then takes 0).
has_formatting_inconsistencies(text) ==
    LET comma_amounts == SumSeq(LAMBDA p : Phrase(p).numComma, text)
        dot_amounts == SumSeq(LAMBDA p : Phrase(p).numDot, text)
    IN  comma_amounts > 0 /\ dot_amounts > 0 /\ comma_amounts # dot_amounts

\* _has_unusual_characters
has_unusual_characters(text) ==
    LET special_char_count == SumSeq(LAMBDA p : Phrase(p).special, text)
    IN  \* special_char_count > len(text) * 0.3
        \/ 10 * special_char_count > 3 * TextLen(text)
        \/ \E i \in 1..Len(text) : Phrase(text[i]).rep6

\* _has_data_integrity_issues
has_data_integrity_issues(text) ==
    LET amounts == extract_amounts(text)
        dates == extract_dates(text)
        \* the dates that split into three parts
        split3 == {d \in dates : Len(DateParts(d)) = 3}
        \* datetime(year, month, day) with month, day, year = parts
        raises == \E d \in split3 : ~ValidDate(DateParts(d)[3], DateParts(d)[1], DateParts(d)[2])
        parsed_dates ==
            {ToOrdinal(DateParts(d)[3], DateParts(d)[1], DateParts(d)[2]) : d \in split3}
    IN  \* max_amount > 1000000
        \/ amounts # <<>> /\ SeqMax(amounts) > 1000000 * 100
        \/ /\ Cardinality(dates) > 1
           /\ \/ raises
              \/ parsed_dates # {} /\ SetMax(parsed_dates) - SetMin(parsed_dates) > 365

placeholder_patterns ==
    <<"xxx+", "\\[.*\\]", "<.*>", "placeholder", "sample", "lorem ipsum">>

\* _validate_content_authenticity
validate_content_authenticity(text, document_type) ==
    LET matched == {i \in 1..Len(placeholder_patterns) :
                      \E j \in 1..Len(text) : i \in Phrase(text[j]).placeholders}
        placeholder_issues ==
            FlatMap(LAMBDA i : IF i \in matched
                               THEN <<Issue("Placeholder text detected", placeholder_patterns[i])>>
                               ELSE <<>>,
                    [i \in 1..Len(placeholder_patterns) |-> i])
        formatting == has_formatting_inconsistencies(text)
        unusual == has_unusual_characters(text)
        integrity == has_data_integrity_issues(text)
        \* 1.0, minus 0.2 per pattern, 0.1, 0.1, 0.2
        authenticity_score ==
            Scale - 2000 * Cardinality(matched)
                  - (IF formatting THEN 1000 ELSE 0)
                  - (IF unusual THEN 1000 ELSE 0)
                  - (IF integrity THEN 2000 ELSE 0)
    IN  << <<"authenticity_validation_issues",
             placeholder_issues
             \o (IF formatting THEN <<Issue("Formatting inconsistencies detected", "")>> ELSE <<>>)
             \o (IF unusual THEN <<Issue("Unusual character patterns detected", "")>> ELSE <<>>)
             \o (IF integrity THEN <<Issue("Data integrity issues detected", "")>> ELSE <<>>)>>,
           <<"authenticity_score", Max(0, authenticity_score)>> >>

\* str.lower() of the names the phrases hold
Lower(s) ==
    CASE s = "John Smith" -> "john smith"
      [] OTHER -> s

\* the (key, value) pair of the first of two patterns that matches, if any
Captured(key, m1, m2) ==
    IF m1 # <<>> THEN << <<key, m1[1]>> >>
    ELSE IF m2 # <<>> THEN << <<key, m2[1]>> >> ELSE <<>>

extract_medical_data_with_amount(text) ==
    Captured("patient_name", FirstMatch(LAMBDA p : Phrase(p).patient1, text),
                             FirstMatch(LAMBDA p : Phrase(p).patient2, text))
    \o Captured("service_date", FirstMatch(LAMBDA p : Phrase(p).service1, text),
                                FirstMatch(LAMBDA p : Phrase(p).service2, text))
    \o Captured("provider", FirstMatch(LAMBDA p : Phrase(p).provider1, text),
                            FirstMatch(LAMBDA p : Phrase(p).provider2, text))
    \o (IF extract_amounts(text) # <<>> THEN << <<"amount", "first of amounts">> >> ELSE <<>>)

\* _extract_medical_data
extract_medical_data(text) ==
    Captured("patient_name", FirstMatch(LAMBDA p : Phrase(p).patient1, text),
                             FirstMatch(LAMBDA p : Phrase(p).patient2, text))
    \o Captured("service_date", FirstMatch(LAMBDA p : Phrase(p).service1, text),
                                FirstMatch(LAMBDA p : Phrase(p).service2, text))
    \o Captured("provider", FirstMatch(LAMBDA p : Phrase(p).provider1, text),
                            FirstMatch(LAMBDA p : Phrase(p).provider2, text))

\* _extract_vehicle_data
extract_vehicle_data(text) ==
    LET vin_match == FirstMatch(LAMBDA p : Phrase(p).vin, text)
        year_make_model == FirstMatch(LAMBDA p : Phrase(p).vehicle1, text)
        vehicle == FirstMatch(LAMBDA p : Phrase(p).vehicle2, text)
    IN  (IF vin_match # <<>> THEN << <<"vin", vin_match[1]>> >> ELSE <<>>)
        \o (IF year_make_model # <<>>
            THEN << <<"vehicle_year", year_make_model[1]>>,
                    <<"vehicle_make", year_make_model[2]>>,
                    <<"vehicle_model", year_make_model[3]>> >>
            ELSE IF vehicle # <<>> THEN << <<"vehicle_info", vehicle[1]>> >> ELSE <<>>)
        \o Captured("damage_description", FirstMatch(LAMBDA p : Phrase(p).damage1, text),
                                          FirstMatch(LAMBDA p : Phrase(p).damage2, text))

\* _extract_invoice_data
extract_invoice_data(text) ==
    Captured("invoice_number", FirstMatch(LAMBDA p : Phrase(p).invoice1, text),
                               FirstMatch(LAMBDA p : Phrase(p).invoice2, text))
    \o Captured("vendor", FirstMatch(LAMBDA p : Phrase(p).vendor1, text),
                          FirstMatch(LAMBDA p : Phrase(p).vendor2, text))

\* the keys of extracted_data whose values are lists; the others are strings
ListKeys == {"emails", "phones", "amounts"}

\* not extracted_data[field]
Falsy(data, field) ==
    IF field \in ListKeys THEN data[field] = <<>>
    ELSE IF field = "dates" THEN data[field] = {} ELSE data[field] = ""

\* _cross_validate_data
cross_validate_data(data, document_type) ==
    LET dates == Get(data, "dates", {})
        \* datetime(int(parts[2]), int(parts[0]), int(parts[1])); a date that
        \* raises ValueError is skipped
        parsed_dates ==
            {ToOrdinal(DateParts(d)[3], DateParts(d)[1], DateParts(d)[2]) :
               d \in {x \in dates : /\ Len(DateParts(x)) = 3
                                    /\ ValidDate(DateParts(x)[3], DateParts(x)[1],
                                                 DateParts(x)[2])}}
        date_issues ==
            IF /\ Cardinality(dates) > 1
               /\ parsed_dates # {}
               /\ SetMax(parsed_dates) - SetMin(parsed_dates) > 90
            THEN <<Issue("Inconsistent dates detected", "")>> ELSE <<>>
        amounts == Get(data, "amounts", <<>>)
        \* amount_range > max(amounts) * 0.5
        amount_issues ==
            IF amounts # <<>> /\ 2 * (SeqMax(amounts) - SeqMin(amounts)) > SeqMax(amounts)
            THEN <<Issue("Large variance in monetary amounts", "")>> ELSE <<>>
        name_issues ==
            IF /\ document_type = "medical_bill"
               /\ "patient_name" \in DOMAIN data
               /\ "provider" \in DOMAIN data
               /\ data["patient_name"] # ""
               /\ data["provider"] # ""
               /\ Lower(data["patient_name"]) = Lower(data["provider"])
            THEN <<Issue("Patient and provider names are identical", "")>> ELSE <<>>
    IN  date_issues \o amount_issues \o name_issues

\* _extract_and_validate_data
extract_and_validate_data(text, document_type, rules) ==
    LET common ==
            << <<"emails", FlatMap(LAMBDA p : Phrase(p).emails, text)>>,
               <<"phones", FlatMap(LAMBDA p : Phrase(p).phones, text)>>,
               <<"amounts", extract_amounts(text)>>,
               <<"dates", extract_dates(text)>> >>
        specific ==
            CASE document_type = "medical_bill" -> extract_medical_data(text)
              [] document_type = "vehicle_estimate" -> extract_vehicle_data(text)
              [] document_type \in {"invoice", "receipt"} -> extract_invoice_data(text)
              [] OTHER -> <<>>
        extracted_data == DictUpdate(<<>>, common \o specific)
        required_fields == rules.required_fields
        missing ==
            FlatMap(LAMBDA field :
                      IF field \notin DOMAIN extracted_data \/ Falsy(extracted_data, field)
                      THEN <<Issue("Required field missing", field)>> ELSE <<>>,
                    required_fields)
    IN  << <<"data_validation_issues",
             missing \o cross_validate_data(extracted_data, document_type)>>,
           <<"data", extracted_data>> >>

\* key.endswith("_issues")
EndsWithIssues(key) ==
    key \in {"text_validation_issues", "structure_validation_issues",
             "authenticity_validation_issues", "data_validation_issues"}

RECURSIVE merge_validation_results(_, _)
\* _merge_validation_results: main_result after the (key, value) pairs of
\* additional_result are merged into it, in order
merge_validation_results(main_result, additional_result) ==
    IF additional_result = <<>> THEN main_result
    ELSE LET key == Head(additional_result)[1]
             value == Head(additional_result)[2]
             merged ==
                 IF EndsWithIssues(key)
                 THEN [main_result EXCEPT !["issues"] = @ \o value]
                 ELSE IF key = "authenticity_score"
                      THEN [main_result EXCEPT
                              !["confidence"] = (Get(main_result, "confidence", Scale) + value) \div 2]
                      ELSE (key :> value) @@ main_result
         IN  merge_validation_results(merged, Tail(additional_result))

calculate_validation_score_uncapped(result) ==
    LET issue_count == Len(Get(result, "issues", <<>>))
        base1 == Scale - Min(Scale, issue_count * 1000)
        confidence == Get(result, "confidence", Scale)
        base2 == (base1 * confidence) \div Scale
        authenticity == Get(result, "authenticity_score", Scale)
        base3 == (base2 + authenticity) \div 2
    IN  Max(0, Min(Scale, base3))

\* _calculate_validation_score
calculate_validation_score(result) ==
    LET issue_count == Len(Get(result, "issues", <<>>))
        \* base_score = 1.0 - min(0.8, issue_count * 0.1)
        base1 == Scale - Min(8000, issue_count * 1000)
        confidence == Get(result, "confidence", Scale)
        base2 == (base1 * confidence) \div Scale
        authenticity == Get(result, "authenticity_score", Scale)
        base3 == (base2 + authenticity) \div 2
    IN  Max(0, Min(Scale, base3))

is_valid_above(validation_score) == validation_score > 6000

\* validate_document: is_valid = validation_score >= 0.6
is_valid(validation_score) == validation_score >= 6000

\* The argument extracted_text: a str (a text) or None
StrText(text) == [kind |-> "str", phrases |-> text]

NoneText == [kind |-> "None", phrases |-> <<>>]

\* validate_document: validation_result as it starts out
initial_validation_result ==
    ("is_valid" :> TRUE) @@ ("validation_score" :> Scale) @@ ("issues" :> <<>>)
    @@ ("extracted_data" :> <<>>) @@ ("confidence" :> Scale)

rules_for_medical_bill(document_type) ==
    IF document_type \in DOMAIN validation_rules
    THEN validation_rules[document_type] ELSE validation_rules["medical_bill"]

\* validate_document: self.validation_rules.get(document_type, ...["general"])
rules_for(document_type) ==
    IF document_type \in DOMAIN validation_rules
    THEN validation_rules[document_type] ELSE validation_rules["general"]

\* validate_document, up to validation_result.update(text_validation)
after_text_validation(document_type, text) ==
    DictUpdate(initial_validation_result,
               validate_text_content(text, rules_for(document_type)))

\* validate_document, up to the merge of structure_validation
after_structure_validation(document_type, text, now) ==
    merge_validation_results(
        after_text_validation(document_type, text),
        validate_document_structure(text, document_type, rules_for(document_type), now))

\* validate_document, up to the merge of content_validation
after_content_validation(document_type, text, now) ==
    merge_validation_results(
        after_structure_validation(document_type, text, now),
        validate_content_authenticity(text, document_type))

\* validate_document: extracted_data is set to data_validation.get("data", {}),
\* then data_validation is merged
with_data_validation(validation_result, data_validation) ==
    merge_validation_results(
        [validation_result EXCEPT !["extracted_data"] = data_validation[2][2]],
        data_validation)

\* validate_document: validation_score and is_valid are set
with_score(validation_result, validation_score) ==
    [validation_result EXCEPT !["validation_score"] = validation_score,
                              !["is_valid"] = is_valid(validation_score)]

\* validate_document: the final validation
scored(validation_result) ==
    with_score(validation_result, calculate_validation_score(validation_result))

validation_error_scored(error) ==
    ("is_valid" :> FALSE) @@ ("validation_score" :> 5000)
    @@ ("issues" :> <<Issue("Validation error", error)>>)
    @@ ("extracted_data" :> <<>>) @@ ("confidence" :> 0)

\* validate_document, the dict of its except branch
validation_error(error) ==
    ("is_valid" :> FALSE) @@ ("validation_score" :> 0)
    @@ ("issues" :> <<Issue("Validation error", error)>>)
    @@ ("extracted_data" :> <<>>) @@ ("confidence" :> 0)

\* validate_document: the dict it returns.  len(None) raises TypeError in
\* _validate_text_content, which the handler of validate_document catches.
validate_document(document_type, extracted_text, now) ==
    IF extracted_text.kind = "None"
    THEN validation_error("object of type 'NoneType' has no len()")
    ELSE scored(with_data_validation(
                    after_content_validation(document_type, extracted_text.phrases, now),
                    extract_and_validate_data(extracted_text.phrases, document_type,
                                              rules_for(document_type))))

\* the checks validate_document awaits inside its try block, in order
DocChecks ==
    <<"_validate_text_content", "_validate_document_structure",
      "_validate_content_authenticity", "_extract_and_validate_data">>

\* validate_document when the check named raises: the checks before it have
\* run, the handler drops validation_result and builds the dict of the
\* except branch from the exception.  On None the first check raises first.
validate_document_raising(document_type, extracted_text, now, raises) ==
    IF extracted_text.kind = "None"
    THEN validate_document(document_type, extracted_text, now)
    ELSE validation_error(raises)

-----------------------------------------------------------------------------
(* The calls of validate_document *)

DocumentTypes == RuleTypes \cup {"contract"}

\* the days datetime.now() falls on: 2024-06-01 and 2026-11-04
NowDays == {ToOrdinal(2024, 6, 1), ToOrdinal(2026, 11, 4)}

DocTexts == {StrText(t) : t \in SeqsUpTo(DocVocab, MaxDocPhrases)} \cup {NoneText}

NoCall == [called |-> FALSE]

\* no engine has been called yet
NoCallYet == doc = NoCall /\ fraud = NoCall /\ image = NoCall

\* One call of validate_document.  The validator keeps no state between
\* calls, so a behaviour is one call.
ValidateDocument(document_type, extracted_text, now) ==
    /\ doc' = [called |-> TRUE, again |-> FALSE, document_type |-> document_type,
               extracted_text |-> extracted_text, now |-> now,
               result |-> validate_document(document_type, extracted_text, now)]
    /\ UNCHANGED <<fraud, image, services, calls, auth, http>>

\* Two calls of validate_document with the same arguments, the first on the
\* day now and the second on the day later
ValidateDocumentAgain(document_type, extracted_text, now, later) ==
    /\ doc' = [called |-> TRUE, again |-> TRUE, document_type |-> document_type,
               extracted_text |-> extracted_text, now |-> now, later |-> later,
               result |-> validate_document(document_type, extracted_text, now),
               result_later |-> validate_document(document_type, extracted_text, later)]
    /\ UNCHANGED <<fraud, image, services, calls, auth, http>>

\* One call of validate_document in which the check named raises
ValidateDocumentRaising(document_type, extracted_text, now, raises) ==
    /\ doc' = [called |-> TRUE, again |-> FALSE, document_type |-> document_type,
               extracted_text |-> extracted_text, now |-> now, raises |-> raises,
               result |-> validate_document_raising(document_type, extracted_text, now,
                                                    raises)]
    /\ UNCHANGED <<fraud, image, services, calls, auth, http>>

DocNext ==
    \/ /\ NoCallYet
       /\ \E document_type \in DocumentTypes, extracted_text \in DocTexts, now \in NowDays :
              ValidateDocument(document_type, extracted_text, now)
    \/ /\ NoCallYet
       /\ \E document_type \in DocumentTypes, extracted_text \in DocTexts,
             now \in NowDays, later \in NowDays :
              /\ later > now
              /\ ValidateDocumentAgain(document_type, extracted_text, now, later)


-----------------------------------------------------------------------------
(* FraudDetectionService *)

\* self.fraud_keywords
fraud_keywords ==
    <<"fake", "forged", "altered", "modified", "suspicious",
      "emergency", "urgent", "immediate", "rush", "asap",
      "cash only", "no receipt", "lost receipt", "damaged receipt">>

\* self.suspicious_patterns["missing_info"]
missing_info == <<"N/A", "Unknown", "TBD", "--">>

\* self.suspicious_patterns: the regular expressions as written, and the
\* list of missing_info
suspicious_patterns ==
    [round_numbers |-> "\\b\\d+00\\.00\\b", duplicate_amounts |-> "(\\$\\d+\\.?\\d*)",
     inconsistent_dates |-> "\\d{1,2}/\\d{1,2}/\\d{4}", missing_info |-> missing_info]

ClaimTypes == {"health", "vehicle", "travel", "product_warranty", "pet", "agricultural"}

\* self.amount_thresholds, in dollars
amount_thresholds ==
    [t \in ClaimTypes |->
      CASE t = "health" -> [low |-> 100, high |-> 50000, avg |-> 2500]
        [] t = "vehicle" -> [low |-> 500, high |-> 100000, avg |-> 5000]
        [] t = "travel" -> [low |-> 50, high |-> 10000, avg |-> 800]
        [] t = "product_warranty" -> [low |-> 20, high |-> 5000, avg |-> 300]
        [] t = "pet" -> [low |-> 100, high |-> 15000, avg |-> 1200]
        [] t = "agricultural" -> [low |-> 1000, high |-> 500000, avg |-> 25000]]

\* _extract_text_features.  sentence_count, uppercase_ratio, punctuation_ratio
\* and word_repetition_ratio are left out: nothing reads them.
extract_text_features(text) ==
    LET word_count == WordCount(text)
        detected_keywords == SelectSeq(fraud_keywords, LAMBDA keyword : Contains(text, keyword))
        fraud_keyword_count == Len(detected_keywords)
    IN  ("text_length" :> TextLen(text)) @@ ("word_count" :> word_count)
        @@ ("fraud_keyword_count" :> fraud_keyword_count)
        @@ ("fraud_keyword_ratio" :> Ratio(fraud_keyword_count, Max(word_count, 1)))
        @@ ("detected_fraud_keywords" :> detected_keywords)

analyze_amounts_high_inclusive(text, claim_type, requested_amount) ==
    LET amounts == extract_amounts(text)
        max_amount == IF amounts # <<>> THEN SeqMax(amounts) ELSE 0
        \* abs(max_amount - requested_amount) / max(requested_amount, 1)
        amount_consistency ==
            IF amounts # <<>>
            THEN Ratio(Abs(max_amount - 100 * requested_amount), 100 * Max(requested_amount, 1))
            ELSE Scale
        \* amt % 100 == 0 and amt > 100
        round_amounts == SelectSeq(amounts, LAMBDA amt : amt % 10000 = 0 /\ amt > 10000)
        round_amount_ratio ==
            IF amounts # <<>> THEN Ratio(Len(round_amounts), Max(Len(amounts), 1)) ELSE 0
        thresholds == IF claim_type \in DOMAIN amount_thresholds
                      THEN amount_thresholds[claim_type] ELSE amount_thresholds["health"]
        range_position ==
            Ratio(requested_amount - thresholds.low, thresholds.high - thresholds.low)
        amount_anomaly_score ==
            IF requested_amount < thresholds.low THEN 3000
            ELSE IF requested_amount >= thresholds.high THEN 8000
                 ELSE Min(2000, Abs(range_position - 5000))
    IN  ("extracted_amounts" :> amounts) @@ ("amount_count" :> Len(amounts))
        @@ ("max_extracted_amount" :> max_amount)
        @@ ("amount_consistency" :> amount_consistency)
        @@ ("round_amount_ratio" :> round_amount_ratio)
        @@ ("amount_anomaly_score" :> amount_anomaly_score)

\* _analyze_amounts; requested_amount is a whole number of dollars, the
\* amounts of the text are in cents
analyze_amounts(text, claim_type, requested_amount) ==
    LET amounts == extract_amounts(text)
        max_amount == IF amounts # <<>> THEN SeqMax(amounts) ELSE 0
        \* abs(max_amount - requested_amount) / max(requested_amount, 1)
        amount_consistency ==
            IF amounts # <<>>
            THEN Ratio(Abs(max_amount - 100 * requested_amount), 100 * Max(requested_amount, 1))
            ELSE Scale
        \* amt % 100 == 0 and amt > 100
        round_amounts == SelectSeq(amounts, LAMBDA amt : amt % 10000 = 0 /\ amt > 10000)
        round_amount_ratio ==
            IF amounts # <<>> THEN Ratio(Len(round_amounts), Max(Len(amounts), 1)) ELSE 0
        thresholds == IF claim_type \in DOMAIN amount_thresholds
                      THEN amount_thresholds[claim_type] ELSE amount_thresholds["health"]
        range_position ==
            Ratio(requested_amount - thresholds.low, thresholds.high - thresholds.low)
        amount_anomaly_score ==
            IF requested_amount < thresholds.low THEN 3000
            ELSE IF requested_amount > thresholds.high THEN 8000
                 ELSE Min(2000, Abs(range_position - 5000))
    IN  ("extracted_amounts" :> amounts) @@ ("amount_count" :> Len(amounts))
        @@ ("max_extracted_amount" :> max_amount)
        @@ ("amount_consistency" :> amount_consistency)
        @@ ("round_amount_ratio" :> round_amount_ratio)
        @@ ("amount_anomaly_score" :> amount_anomaly_score)

\* _check_suspicious_patterns
check_suspicious_patterns(text) ==
    LET round_matches == SumSeq(LAMBDA p : Phrase(p).roundNums, text)
        round_indicators ==
            IF round_matches > 0 THEN <<Issue("Round number amounts", "")>> ELSE <<>>
        matched == {i \in 1..Len(missing_info) :
                      \E j \in 1..Len(text) : i \in Phrase(text[j]).missing}
        missing_indicators ==
            FlatMap(LAMBDA i : IF i \in matched
                               THEN <<Issue("Missing information indicator", missing_info[i])>>
                               ELSE <<>>,
                    [i \in 1..Len(missing_info) |-> i])
        amounts == FlatMap(LAMBDA p : Phrase(p).dupAmts, text)
        \* len(amounts) != len(set(amounts)) and len(amounts) > 1
        duplicate_indicators ==
            IF Len(amounts) # Cardinality({amounts[i] : i \in 1..Len(amounts)}) /\ Len(amounts) > 1
            THEN <<Issue("Duplicate amounts detected", "")>> ELSE <<>>
        dates == FlatMap(LAMBDA p : Phrase(p).fmtDates, text)
        \* datetime(year, month, day) with month, day, year = parts
        raises == \E i \in 1..Len(dates) :
                      ~ValidDate(DateParts(dates[i])[3], DateParts(dates[i])[1],
                                 DateParts(dates[i])[2])
        parsed_dates ==
            {ToOrdinal(DateParts(dates[i])[3], DateParts(dates[i])[1], DateParts(dates[i])[2]) :
               i \in 1..Len(dates)}
        date_indicators ==
            IF Len(dates) > 1
            THEN IF raises THEN <<Issue("Invalid date format detected", "")>>
                 ELSE IF SetMax(parsed_dates) - SetMin(parsed_dates) > 365
                      THEN <<Issue("Inconsistent dates detected", "")>> ELSE <<>>
            ELSE <<>>
        suspicious == round_indicators \o missing_indicators \o duplicate_indicators
                        \o date_indicators
    IN  ("missing_info_count" :> Cardinality(matched))
        @@ ("suspicious_indicators" :> suspicious)
        @@ ("suspicious_pattern_count" :> Len(suspicious))

\* _check_health_consistency
check_health_consistency(text) ==
    (IF /\ Contains(text, "surgery") /\ Contains(text, "outpatient")
        /\ ~Contains(text, "minor") /\ ~Contains(text, "same day")
     THEN <<Issue("Surgery and outpatient treatment may be inconsistent", "")>> ELSE <<>>)
    \o (IF Contains(text, "emergency") /\ Contains(text, "routine")
        THEN <<Issue("Emergency and routine treatment mentioned together", "")>> ELSE <<>>)
    \o (IF Contains(text, "chronic") /\ Contains(text, "sudden")
        THEN <<Issue("Chronic and sudden condition mentioned together", "")>> ELSE <<>>)

\* _check_vehicle_consistency
check_vehicle_consistency(text) ==
    (IF Contains(text, "minor damage") /\ ContainsAny(text, {"total loss", "severe", "major"})
     THEN <<Issue("Minor damage inconsistent with severity indicators", "")>> ELSE <<>>)
    \o (IF Contains(text, "low speed") /\ Contains(text, "extensive damage")
        THEN <<Issue("Low speed inconsistent with extensive damage", "")>> ELSE <<>>)
    \o (IF Contains(text, "parking lot") /\ Contains(text, "high speed")
        THEN <<Issue("High speed in parking lot seems inconsistent", "")>> ELSE <<>>)

\* _check_general_consistency
check_general_consistency(text) ==
    LET contradictions ==
            << <<"new", {"new", "brand new"}, {"old", "used", "worn"}>>,
               <<"expensive", {"expensive", "costly"}, {"cheap", "inexpensive"}>>,
               <<"working", {"working", "functional"}, {"broken", "damaged"}>> >>
    IN  FlatMap(LAMBDA c : IF ContainsAny(text, c[2]) /\ ContainsAny(text, c[3])
                           THEN <<Issue("Contradictory terms detected", c[1])>> ELSE <<>>,
                contradictions)

\* _analyze_consistency
analyze_consistency(text, claim_type) ==
    LET consistency_issues ==
            CASE claim_type = "health" -> check_health_consistency(text)
              [] claim_type = "vehicle" -> check_vehicle_consistency(text)
              [] claim_type \in {"travel", "product_warranty", "pet", "agricultural"} ->
                   check_general_consistency(text)
              [] OTHER -> <<>>
    IN  ("consistency_issues" :> consistency_issues)
        @@ ("consistency_score" :> Max(0, Scale - Len(consistency_issues) * 2000))

\* the weights of _calculate_fraud_score, in hundredths, in dict order
weights ==
    << <<"fraud_keyword_ratio", 25>>, <<"amount_anomaly_score", 20>>,
       <<"suspicious_pattern_count", 15>>, <<"consistency_score", 15>>,
       <<"amount_consistency", 10>>, <<"round_amount_ratio", 10>>,
       <<"missing_info_count", 5>> >>

\* _calculate_fraud_score, the branch that normalizes one feature
normalized_value(feature_name, value) ==
    CASE feature_name = "consistency_score" -> Scale - value
      [] feature_name \in {"fraud_keyword_ratio", "round_amount_ratio"} -> Min(Scale, value * 5)
      [] feature_name \in {"suspicious_pattern_count", "missing_info_count"} ->
           Min(Scale, value * 2000)
      [] feature_name = "amount_consistency" -> Min(Scale, value)
      [] OTHER -> Min(Scale, Max(0, value))

\* _calculate_fraud_score, the loop: the weights whose feature is in the bag
weights_present(features) == SelectSeq(weights, LAMBDA w : w[1] \in DOMAIN features)

weight_sum_of_all(features) == SumSeq(LAMBDA w : w[2], weights)

\* _calculate_fraud_score, weight_sum when the loop ends
weight_sum(features) == SumSeq(LAMBDA w : w[2], weights_present(features))

\* _calculate_fraud_score; raises tells whether an exception is raised inside
\* its try block, which its own handler turns into the neutral score
calculate_fraud_score(features, raises) ==
    IF raises THEN 5000
    ELSE LET present == weights_present(features)
             fraud_score ==
                 SumSeq(LAMBDA w : w[2] * normalized_value(w[1], features[w[1]]), present)
         IN  Min(Scale, Max(0, IF weight_sum(features) > 0
                                THEN fraud_score \div weight_sum(features)
                                ELSE fraud_score))

sum_confidence(confidence_factors) == SumSeq(LAMBDA f : f, confidence_factors) * 1000

\* sum(confidence_factors) / len(confidence_factors), factors in tenths
mean_confidence(confidence_factors) ==
    (SumSeq(LAMBDA f : f, confidence_factors) * 1000) \div Len(confidence_factors)

calculate_confidence_any_amount(features, fraud_score) ==
    LET text_length == Get(features, "text_length", 0)
        text_quality == IF text_length > 100 THEN 8 ELSE IF text_length > 50 THEN 6 ELSE 3
        amount_data == IF Get(features, "amount_count", 0) >= 0 THEN 9 ELSE 4
        clarity == IF fraud_score > 7000 \/ fraud_score < 3000 THEN 8 ELSE 5
    IN  mean_confidence(<<text_quality, amount_data, clarity>>)

\* _calculate_confidence
calculate_confidence(features, fraud_score) ==
    LET text_length == Get(features, "text_length", 0)
        text_quality == IF text_length > 100 THEN 8 ELSE IF text_length > 50 THEN 6 ELSE 3
        amount_data == IF Get(features, "amount_count", 0) > 0 THEN 9 ELSE 4
        clarity == IF fraud_score > 7000 \/ fraud_score < 3000 THEN 8 ELSE 5
    IN  mean_confidence(<<text_quality, amount_data, clarity>>)

get_recommendation_by_score(fraud_score, confidence) ==
    IF fraud_score > 5000 THEN "manual_review_required"
    ELSE IF fraud_score > 7000 /\ confidence > 6000 THEN "high_risk_reject"
         ELSE IF fraud_score < 3000 /\ confidence > 7000 THEN "low_risk_approve"
              ELSE "standard_review"

\* _get_recommendation
get_recommendation(fraud_score, confidence) ==
    IF fraud_score > 7000 /\ confidence > 6000 THEN "high_risk_reject"
    ELSE IF fraud_score > 5000 THEN "manual_review_required"
         ELSE IF fraud_score < 3000 /\ confidence > 7000 THEN "low_risk_approve"
              ELSE "standard_review"

\* _generate_fraud_report
generate_fraud_report(features, fraud_score, claim_type) ==
    LET keywords == Get(features, "fraud_keyword_count", 0) > 0
        unusual == Get(features, "amount_anomaly_score", 0) > 5000
        inconsistent == Get(features, "amount_consistency", 0) > 3000
        patterns == Get(features, "suspicious_pattern_count", 0) > 0
        internal == Get(features, "consistency_score", Scale) < 7000
        issues ==
            (IF keywords
             THEN <<Issue("Suspicious keywords detected",
                          Get(features, "detected_fraud_keywords", <<>>))>> ELSE <<>>)
            \o (IF unusual
                THEN <<Issue("Claimed amount appears unusual for this type of claim", "")>>
                ELSE <<>>)
            \o (IF inconsistent
                THEN <<Issue("Inconsistency between claimed amount and extracted amounts", "")>>
                ELSE <<>>)
            \o (IF patterns THEN Get(features, "suspicious_indicators", <<>>) ELSE <<>>)
            \o (IF internal THEN Get(features, "consistency_issues", <<>>) ELSE <<>>)
        risk_factors ==
            (IF keywords THEN <<"suspicious_language">> ELSE <<>>)
            \o (IF unusual THEN <<"unusual_amount">> ELSE <<>>)
            \o (IF inconsistent THEN <<"amount_inconsistency">> ELSE <<>>)
            \o (IF patterns THEN <<"suspicious_patterns">> ELSE <<>>)
            \o (IF internal THEN <<"internal_inconsistency">> ELSE <<>>)
        confidence == calculate_confidence(features, fraud_score)
    IN  ("fraud_score" :> fraud_score) @@ ("confidence" :> confidence)
        @@ ("risk_factors" :> risk_factors) @@ ("issues" :> issues)
        @@ ("recommendation" :> get_recommendation(fraud_score, confidence))
        @@ ("feature_analysis" :> features) @@ ("claim_type" :> claim_type)

\* The steps of analyze_text, in the order it runs them
Steps ==
    <<"_extract_text_features", "_analyze_amounts", "_check_suspicious_patterns",
      "_analyze_consistency", "_calculate_fraud_score", "_generate_fraud_report">>

fraud_error_unsure(error) ==
    ("fraud_score" :> 5000) @@ ("issues" :> <<Issue("Analysis error", error)>>)
    @@ ("confidence" :> 3000)

\* analyze_text, the dict of its except branch
fraud_error(error) ==
    ("fraud_score" :> 5000) @@ ("issues" :> <<Issue("Analysis error", error)>>)
    @@ ("confidence" :> 0)

\* analyze_text: the dict it returns.  raises names the step in which an
\* exception is raised, "" when no step fails of itself; len(None) raises
\* TypeError in _extract_text_features.  An exception that leaves a step is
\* caught by the handler of analyze_text.
analyze_text(text, claim_type, requested_amount, raises) ==
    LET failed == IF text = NoneText THEN "_extract_text_features" ELSE raises
    IN  IF failed \in {Steps[i] : i \in 1..Len(Steps)} \ {"_calculate_fraud_score"}
        THEN fraud_error(failed)
        ELSE LET combined_features ==
                     extract_text_features(text.phrases)
                     @@ analyze_amounts(text.phrases, claim_type, requested_amount)
                     @@ check_suspicious_patterns(text.phrases)
                     @@ analyze_consistency(text.phrases, claim_type)
                 fraud_score ==
                     calculate_fraud_score(combined_features, failed = "_calculate_fraud_score")
             IN  generate_fraud_report(combined_features, fraud_score, claim_type)

\* claim_type as main.py hands it on: one of the six known types, or any
\* other string
ClaimTypeArgs == ClaimTypes \cup {"other"}

\* requested_amount, in dollars
RequestedAmounts == {0, 50, 1200, 5000, 50000, 60000, 150000}

NarrTexts == {StrText(t) : t \in SeqsUpTo(NarrVocab, MaxNarrPhrases)} \cup {NoneText}

\* the narratives of the calls in which a step fails of itself
FaultTexts == {StrText(<<>>), StrText(<<"nEmergency">>), StrText(<<"nPaid", "nRoutine">>)}

\* two values for each feature _calculate_fraud_score weighs
FeatureValues(feature_name) ==
    CASE feature_name = "fraud_keyword_ratio" -> <<0, 1250>>
      [] feature_name = "amount_anomaly_score" -> <<2000, 8000>>
      [] feature_name = "suspicious_pattern_count" -> <<0, 2>>
      [] feature_name = "consistency_score" -> <<Scale, 6000>>
      [] feature_name = "amount_consistency" -> <<0, 9000>>
      [] feature_name = "round_amount_ratio" -> <<0, 5000>>
      [] feature_name = "missing_info_count" -> <<1, 7>>

\* feature bags holding any subset of the weighted features
FeatureBags ==
    UNION {{[k \in S |-> FeatureValues(k)[b[k]]] : b \in [S -> {1, 2}]} :
             S \in SUBSET {weights[i][1] : i \in 1..Len(weights)}}

\* scores and confidences on and around the thresholds of _get_recommendation
ScoreGrid == {0, 2999, 3000, 5000, 5001, 6000, 6001, 7000, 7001, Scale}

\* One call of analyze_text in which no step fails of itself.  The service
\* reads no state that a call writes, so one call is a whole behaviour.
AnalyzeText(text, claim_type, requested_amount) ==
    /\ fraud' = [called |-> TRUE, op |-> "analyze_text", text |-> text,
                 claim_type |-> claim_type, requested_amount |-> requested_amount,
                 raises |-> "",
                 result |-> analyze_text(text, claim_type, requested_amount, "")]
    /\ UNCHANGED <<doc, image, services, calls, auth, http>>

\* One call of analyze_text in which the step named raises an exception
AnalyzeTextRaising(raises, text, claim_type, requested_amount) ==
    /\ fraud' = [called |-> TRUE, op |-> "analyze_text", text |-> text,
                 claim_type |-> claim_type, requested_amount |-> requested_amount,
                 raises |-> raises,
                 result |-> analyze_text(text, claim_type, requested_amount, raises)]
    /\ UNCHANGED <<doc, image, services, calls, auth, http>>

\* the phrases that are one fraud keyword and nothing else
KeywordPhrases == {"nFake", "nUrgent", "nCashOnly"}

\* text with the phrase p put in as its i-th phrase
InsertAt(text, i, p) == SubSeq(text, 1, i - 1) \o <<p>> \o SubSeq(text, i, Len(text))

\* Two calls of analyze_text with the same claim type and amount, the
\* second on the narrative of the first with one fraud keyword put in
AnalyzeTextWithKeyword(text, keyword, i, claim_type, requested_amount) ==
    /\ fraud' = [called |-> TRUE, op |-> "analyze_text twice", text |-> text,
                 more_text |-> StrText(InsertAt(text.phrases, i, keyword)),
                 claim_type |-> claim_type, requested_amount |-> requested_amount,
                 result |-> analyze_text(text, claim_type, requested_amount, ""),
                 result_more |->
                     analyze_text(StrText(InsertAt(text.phrases, i, keyword)),
                                  claim_type, requested_amount, "")]
    /\ UNCHANGED <<doc, image, services, calls, auth, http>>

\* One call of _calculate_fraud_score on a feature bag
CalculateFraudScore(features) ==
    /\ fraud' = [called |-> TRUE, op |-> "_calculate_fraud_score", features |-> features,
                 result |-> calculate_fraud_score(features, FALSE)]
    /\ UNCHANGED <<doc, image, services, calls, auth, http>>

\* One call of _get_recommendation
GetRecommendation(fraud_score, confidence) ==
    /\ fraud' = [called |-> TRUE, op |-> "_get_recommendation", fraud_score |-> fraud_score,
                 confidence |-> confidence,
                 result |-> get_recommendation(fraud_score, confidence)]
    /\ UNCHANGED <<doc, image, services, calls, auth, http>>


FraudNext ==
    \/ /\ NoCallYet
       /\ \E text \in NarrTexts, claim_type \in ClaimTypeArgs,
             requested_amount \in RequestedAmounts :
              AnalyzeText(text, claim_type, requested_amount)
    \/ /\ NoCallYet
       /\ \E raises \in {Steps[i] : i \in 1..Len(Steps)}, text \in FaultTexts,
             claim_type \in {"health", "other"}, requested_amount \in {50, 5000} :
              AnalyzeTextRaising(raises, text, claim_type, requested_amount)
    \/ /\ NoCallYet
       /\ \E text \in NarrTexts \ {NoneText}, keyword \in KeywordPhrases,
             claim_type \in ClaimTypeArgs, requested_amount \in {50, 5000} :
              \E i \in 1..(Len(text.phrases) + 1) :
                  AnalyzeTextWithKeyword(text, keyword, i, claim_type, requested_amount)
    \/ /\ NoCallYet
       /\ \E features \in FeatureBags : CalculateFraudScore(features)
    \/ /\ NoCallYet
       /\ \E fraud_score \in ScoreGrid, confidence \in ScoreGrid :
              GetRecommendation(fraud_score, confidence)


-----------------------------------------------------------------------------
(* ImageAnalysisService.  An image is the record of what the OpenCV and PIL
   measurements of the source find in it: whether it decodes, the four
   tampering scores, the sub-detectors whose measurement raises on it, its
   EXIF tags, edge density, colour variance, contour areas, pixel count,
   blur score, brightness and contrast. *)

\* self.tampering_thresholds
tampering_thresholds ==
    [compression_artifacts |-> 7000, noise_patterns |-> 6000,
     color_inconsistency |-> 5000, edge_discontinuity |-> 8000]

\* _analyze_exif_data
analyze_exif_data(img) ==
    LET has_exif == img.exif # "none"
        issues ==
            IF ~has_exif THEN <<Issue("No EXIF data found", "")>>
            ELSE (IF img.exif = "edited"
                  THEN <<Issue("Image editing software detected", "photoshop")>> ELSE <<>>)
                 \o (IF img.exif = "redated"
                     THEN <<Issue("Inconsistent date/time stamps in EXIF", "")>> ELSE <<>>)
    IN  ("suspicious" :> (issues # <<>>)) @@ ("issues" :> issues) @@ ("has_exif" :> has_exif)

\* the four sub-detectors of _analyze_authenticity, in the order it calls them
SubDetectors ==
    <<"_check_compression_artifacts", "_check_noise_patterns", "_check_color_consistency",
      "_check_edge_discontinuities">>

\* _check_compression_artifacts: the score, or 0.0 from its except branch
\* when the measurement raises on the image
check_compression_artifacts(img) ==
    IF "_check_compression_artifacts" \in img.raises THEN 0 ELSE img.compression_score

\* _check_noise_patterns
check_noise_patterns(img) ==
    IF "_check_noise_patterns" \in img.raises THEN 0 ELSE img.noise_score

\* _check_color_consistency
check_color_consistency(img) ==
    IF "_check_color_consistency" \in img.raises THEN 0 ELSE img.color_score

\* _check_edge_discontinuities
check_edge_discontinuities(img) ==
    IF "_check_edge_discontinuities" \in img.raises THEN 0 ELSE img.edge_score

\* _analyze_authenticity; deductions in Scale units
analyze_authenticity(img) ==
    LET compression_score == check_compression_artifacts(img)
        noise_score == check_noise_patterns(img)
        color_score == check_color_consistency(img)
        edge_score == check_edge_discontinuities(img)
        compression == compression_score > tampering_thresholds.compression_artifacts
        noise == noise_score > tampering_thresholds.noise_patterns
        color == color_score > tampering_thresholds.color_inconsistency
        edge == edge_score > tampering_thresholds.edge_discontinuity
        exif_analysis == analyze_exif_data(img)
        authenticity_indicators ==
            (IF compression
             THEN <<Issue("Suspicious compression artifacts detected", "")>> ELSE <<>>)
            \o (IF noise THEN <<Issue("Unusual noise patterns detected", "")>> ELSE <<>>)
            \o (IF color THEN <<Issue("Color inconsistencies detected", "")>> ELSE <<>>)
            \o (IF edge THEN <<Issue("Edge discontinuities suggest editing", "")>> ELSE <<>>)
            \o (IF exif_analysis["suspicious"] THEN exif_analysis["issues"] ELSE <<>>)
        authenticity_score ==
            Scale - (IF compression THEN 2000 ELSE 0) - (IF noise THEN 1500 ELSE 0)
                  - (IF color THEN 2000 ELSE 0) - (IF edge THEN 2500 ELSE 0)
                  - (IF exif_analysis["suspicious"] THEN 1000 ELSE 0)
    IN  ("score" :> Max(0, Min(Scale, authenticity_score)))
        @@ ("indicators" :> authenticity_indicators)
        @@ ("compression_score" :> compression_score)
        @@ ("noise_score" :> noise_score) @@ ("color_score" :> color_score)
        @@ ("edge_score" :> edge_score) @@ ("exif_analysis" :> exif_analysis)

\* _assess_damage_severity, the dict of its except branch
severity_error == ("level" :> "unknown") @@ ("score" :> 5000) @@ ("error" :> "raised")

\* _assess_damage_severity; edge_density in Scale units
assess_damage_severity(img, damage_type) ==
    IF "_assess_damage_severity" \in img.raises THEN severity_error ELSE
    LET generic_score == Min(Scale, (img.edge_density * 5 + img.total_variance * 10) \div 2)
        severity ==
            IF damage_type = "vehicle"
            THEN IF img.edge_density > 1000 /\ img.total_variance > 1000 THEN <<"severe", 8000>>
                 ELSE IF img.edge_density > 500 /\ img.total_variance > 500
                      THEN <<"moderate", 5000>> ELSE <<"minor", 2000>>
            ELSE IF generic_score > 7000 THEN <<"severe", generic_score>>
                 ELSE IF generic_score > 4000 THEN <<"moderate", generic_score>>
                      ELSE <<"minor", generic_score>>
    IN  ("level" :> severity[1]) @@ ("score" :> severity[2])

\* base_costs of _estimate_damage_cost, in dollars
base_costs ==
    [t \in {"vehicle", "health", "property"} |->
      CASE t = "vehicle" -> [minor |-> 500, moderate |-> 2000, severe |-> 8000]
        [] t = "health" -> [minor |-> 200, moderate |-> 1000, severe |-> 5000]
        [] t = "property" -> [minor |-> 300, moderate |-> 1500, severe |-> 10000]]

\* _estimate_damage_cost, in cents: round(base_cost * (0.5 + severity_score), 2);
\* a level that base_costs lacks raises KeyError, which gives the default
estimate_damage_cost(damage_type, severity) ==
    LET severity_level == Get(severity, "level", "moderate")
        costs == IF damage_type \in DOMAIN base_costs THEN base_costs[damage_type]
                 ELSE base_costs["property"]
    IN  IF severity_level \notin DOMAIN costs THEN 100000
        ELSE (costs[severity_level] * (5000 + Get(severity, "score", 5000)) + 50) \div 100

\* _identify_damage_locations: the contours above the area threshold, in the
\* order findContours lists them, cut to five; of a location only the area
identify_damage_locations(img) ==
    LET locations == SelectSeq(img.contours, LAMBDA area : area > 500)
    IN  SubSeq(locations, 1, Min(5, Len(locations)))

\* expected_edge_density of _check_damage_consistency, in Scale units
expected_edge_density == [vehicle |-> 500, health |-> 200, property |-> 800]

\* _check_damage_consistency
check_damage_consistency(img, damage_type) ==
    LET expected == IF damage_type \in DOMAIN expected_edge_density
                    THEN expected_edge_density[damage_type] ELSE 500
        \* abs(edge_density - expected) / expected > 0.5
        density_diff == 2 * Abs(img.edge_density - expected) > expected
    IN  Max(0, Scale - (IF density_diff THEN 3000 ELSE 0))

\* _assess_damage
assess_damage(img, damage_type) ==
    LET severity == assess_damage_severity(img, damage_type)
    IN  ("severity" :> severity)
        @@ ("estimated_cost" :> estimate_damage_cost(damage_type, severity))
        @@ ("damage_locations" :> identify_damage_locations(img))
        @@ ("consistency_score" :> check_damage_consistency(img, damage_type))

\* _assess_quality: the dict of quality metrics
assess_quality(img) ==
    LET good_exposure == 50 < img.brightness /\ img.brightness < 200 /\ img.contrast > 20
        resolution_score == Min(Scale, Ratio(img.total_pixels, 1000000))
        sharpness_score == Min(Scale, Ratio(img.blur_score, 200))
        exposure_score == IF good_exposure THEN Scale ELSE 5000
    IN  ("resolution" :> (IF img.total_pixels > 1000000 THEN "high"
                          ELSE IF img.total_pixels > 300000 THEN "medium" ELSE "low"))
        @@ ("sharpness" :> (IF img.blur_score > 100 THEN "sharp"
                            ELSE IF img.blur_score > 50 THEN "acceptable" ELSE "blurred"))
        @@ ("exposure" :> (IF good_exposure THEN "good" ELSE "poor"))
        @@ ("overall_score" :> (resolution_score + sharpness_score + exposure_score) \div 3)

\* analyze_image, the dict of its except branch
image_error(filename, error) ==
    ("filename" :> filename) @@ ("error" :> error) @@ ("authenticity_score" :> 5000)
    @@ ("quality_score" :> 5000) @@ ("processing_time" :> "elapsed")

\* analyze_image, from the result dict on: the dict it returns once the
\* analyses are made.  Reading a key that a dict lacks raises KeyError, which
\* the handler of analyze_image catches.  damage_analysis is <<>> for None.
\* basic_info and content_analysis, which nothing reads, are left out.
image_result(filename, analysis_type, authenticity_analysis, damage_analysis, quality_analysis) ==
    IF "score" \notin DOMAIN authenticity_analysis THEN image_error(filename, "score")
    ELSE IF "score" \notin DOMAIN quality_analysis THEN image_error(filename, "score")
    ELSE ("filename" :> filename) @@ ("analysis_type" :> analysis_type)
         @@ ("authenticity_score" :> authenticity_analysis["score"])
         @@ ("quality_score" :> quality_analysis["score"])
         @@ ("processing_time" :> "elapsed")
         @@ ("authenticity_details" :> authenticity_analysis)
         @@ ("quality_details" :> quality_analysis)
         @@ (IF damage_analysis # <<>>
             THEN ("damage_assessment" :> damage_analysis)
                  @@ ("estimated_cost" :> Get(damage_analysis, "estimated_cost", 0))
             ELSE <<>>)

\* analyze_image: damage_analysis, None unless the analysis type is one of
\* the three that call _assess_damage
damage_analysis_for(img, analysis_type) ==
    IF analysis_type \in {"vehicle", "health", "property"}
    THEN assess_damage(img, analysis_type) ELSE <<>>

\* analyze_image: the dict it returns.  Image.open raises for bytes that do
\* not decode, which the handler of analyze_image catches.
analyze_image(img, filename, analysis_type) ==
    IF ~img.decodes THEN image_error(filename, "cannot identify image file")
    ELSE image_result(filename, analysis_type, analyze_authenticity(img),
                      damage_analysis_for(img, analysis_type), assess_quality(img))


\* analysis_type as main.py hands it on
AnalysisTypes == {"vehicle", "health", "property", "general", "other"}

\* each tampering score on its threshold and just above it
TamperScores ==
    [compression_score : {7000, 7001}, noise_score : {6000, 6001},
     color_score : {5000, 5001}, edge_score : {8000, 8001}]

ExifKinds == {"none", "clean", "edited", "redated"}

\* edge density, colour variance and contour areas of a scene
Scenes ==
    {[edge_density |-> 200, total_variance |-> 100, contours |-> <<>>],
     [edge_density |-> 600, total_variance |-> 600, contours |-> <<600, 100, 900>>],
     [edge_density |-> 1200, total_variance |-> 1500,
      contours |-> <<600, 700, 800, 900, 1000, 2000>>]}

\* pixel count, blur score, brightness and contrast of a shot
Shots ==
    {[total_pixels |-> 2000000, blur_score |-> 150, brightness |-> 120, contrast |-> 40],
     [total_pixels |-> 100000, blur_score |-> 30, brightness |-> 30, contrast |-> 10]}

\* the images on which every sub-detector measures
MeasuredImages ==
    {[decodes |-> TRUE, raises |-> {}, compression_score |-> t.compression_score,
      noise_score |-> t.noise_score, color_score |-> t.color_score,
      edge_score |-> t.edge_score, exif |-> e, edge_density |-> s.edge_density,
      total_variance |-> s.total_variance, contours |-> s.contours,
      total_pixels |-> q.total_pixels, blur_score |-> q.blur_score,
      brightness |-> q.brightness, contrast |-> q.contrast] :
        t \in TamperScores, e \in ExifKinds, s \in Scenes, q \in Shots}

\* an image with every tampering score above its threshold
Tampered ==
    [decodes |-> TRUE, raises |-> {}, compression_score |-> 7001, noise_score |-> 6001,
     color_score |-> 5001, edge_score |-> 8001, exif |-> "clean", edge_density |-> 600,
     total_variance |-> 600, contours |-> <<600, 100, 900>>, total_pixels |-> 2000000,
     blur_score |-> 150, brightness |-> 120, contrast |-> 40]

\* the images on which the measurement of some sub-detectors raises (an
\* image of fewer than 8 rows, say, divides by zero in
\* _check_compression_artifacts)
FailingImages ==
    {[Tampered EXCEPT !.raises = r, !.exif = e] :
        r \in (SUBSET {SubDetectors[i] : i \in 1..Len(SubDetectors)}) \ {{}},
        e \in {"clean", "none"}}

Images == MeasuredImages \cup FailingImages

\* the images on which a measurement of _assess_damage_severity raises, one
\* of each scene
SeverityFailingImages ==
    {[Tampered EXCEPT !.raises = {"_assess_damage_severity"},
                      !.edge_density = s.edge_density, !.total_variance = s.total_variance,
                      !.contours = s.contours] : s \in Scenes}

\* bytes that Image.open rejects
Undecodable == [decodes |-> FALSE]

\* One call of analyze_image.  The service reads no state that a call
\* writes, so one call is a whole behaviour.
AnalyzeImage(img, analysis_type) ==
    /\ image' = [called |-> TRUE, op |-> "analyze_image", img |-> img,
                 analysis_type |-> analysis_type,
                 result |-> analyze_image(img, "photo.jpg", analysis_type)]
    /\ UNCHANGED <<doc, fraud, services, calls, auth, http>>

\* One call of _analyze_authenticity on a decoded image
AnalyzeAuthenticity(img) ==
    /\ image' = [called |-> TRUE, op |-> "_analyze_authenticity", img |-> img,
                 result |-> analyze_authenticity(img)]
    /\ UNCHANGED <<doc, fraud, services, calls, auth, http>>

\* One call of _assess_damage on a decoded image
AssessDamage(img, damage_type) ==
    /\ image' = [called |-> TRUE, op |-> "_assess_damage", img |-> img,
                 damage_type |-> damage_type, result |-> assess_damage(img, damage_type)]
    /\ UNCHANGED <<doc, fraud, services, calls, auth, http>>


ImageNext ==
    \/ /\ NoCallYet
       /\ \E img \in Images \cup {Undecodable}, analysis_type \in AnalysisTypes :
              AnalyzeImage(img, analysis_type)
    \/ /\ NoCallYet
       /\ \E img \in Images : AnalyzeAuthenticity(img)
    \/ /\ NoCallYet
       /\ \E img \in Images \cup SeverityFailingImages, damage_type \in AnalysisTypes :
              AssessDamage(img, damage_type)


-----------------------------------------------------------------------------
(* utils/auth.py and the dependency get_client_info of main.py.  The clock
   is int(time.time()) in seconds.  An exception is the status code of the
   HTTPException raised, 0 when the call returns. *)

\* the most calls of the key check in one behaviour
MaxChecks == 12

\* API_KEYS, with the defaults of the environment, in dict order
API_KEYS ==
    <<<<"chainsure_backend", "chainsure_dev_key_2024">>,
      <<"chainsure_admin", "chainsure_admin_key_2024">>,
      <<"chainsure_test", "chainsure_test_key_2024">>>>

\* get_client_permissions
get_client_permissions(client_name) ==
    CASE client_name = "chainsure_backend" ->
           [analyze_claim |-> TRUE, process_document |-> TRUE, analyze_image |-> TRUE,
            batch_process |-> TRUE, admin_endpoints |-> FALSE]
      [] client_name = "chainsure_admin" ->
           [analyze_claim |-> TRUE, process_document |-> TRUE, analyze_image |-> TRUE,
            batch_process |-> TRUE, admin_endpoints |-> TRUE]
      [] client_name = "chainsure_test" ->
           [analyze_claim |-> TRUE, process_document |-> TRUE, analyze_image |-> FALSE,
            batch_process |-> FALSE, admin_endpoints |-> FALSE]
      [] OTHER -> <<>>

\* get_rate_limit
get_rate_limit(client_name) ==
    [requests_per_minute |->
        CASE client_name = "chainsure_backend" -> 100
          [] client_name = "chainsure_admin" -> 200
          [] client_name = "chainsure_test" -> 10
          [] OTHER -> 10]

\* check_rate_limit: the storage it leaves and the status it raises
check_rate_limit_inclusive(rate_limit_storage, api_key, rate_limit, current_time) ==
    LET window_start == current_time - 60
        kept == IF api_key \in DOMAIN rate_limit_storage
                THEN SelectSeq(rate_limit_storage[api_key], LAMBDA timestamp : timestamp > window_start)
                ELSE <<>>
    IN  IF Len(kept) > rate_limit.requests_per_minute
        THEN [storage |-> (api_key :> kept) @@ rate_limit_storage, raised |-> 429]
        ELSE [storage |-> (api_key :> Append(kept, current_time)) @@ rate_limit_storage,
              raised |-> 0]

\* check_rate_limit: the storage it leaves and the status it raises
check_rate_limit(rate_limit_storage, api_key, rate_limit, current_time) ==
    LET window_start == current_time - 60
        kept == IF api_key \in DOMAIN rate_limit_storage
                THEN SelectSeq(rate_limit_storage[api_key], LAMBDA timestamp : timestamp > window_start)
                ELSE <<>>
    IN  IF Len(kept) >= rate_limit.requests_per_minute
        THEN [storage |-> (api_key :> kept) @@ rate_limit_storage, raised |-> 429]
        ELSE [storage |-> (api_key :> Append(kept, current_time)) @@ rate_limit_storage,
              raised |-> 0]

\* verify_api_key: the clients whose key is the one given, in dict order
matching_clients(api_key) == SelectSeq(API_KEYS, LAMBDA item : item[2] = api_key)

\* verify_api_key: client_info of a client
client_info_of(client_name) ==
    [client_name |-> client_name, permissions |-> get_client_permissions(client_name),
     rate_limit |-> get_rate_limit(client_name)]

\* None
None == [none |-> TRUE]

\* verify_api_key: the storage it leaves, the status it raises and the
\* client_info it returns
verify_api_key(rate_limit_storage, api_key, current_time) ==
    IF api_key = "" THEN [storage |-> rate_limit_storage, raised |-> 401, returned |-> None]
    ELSE IF matching_clients(api_key) = <<>>
    THEN [storage |-> rate_limit_storage, raised |-> 401, returned |-> None]
    ELSE LET client_info == client_info_of(matching_clients(api_key)[1][1])
             checked == check_rate_limit(rate_limit_storage, api_key, client_info.rate_limit,
                                         current_time)
         IN  [storage |-> checked.storage, raised |-> checked.raised,
              returned |-> IF checked.raised = 0 THEN client_info ELSE None]

\* get_client_info, the dict of its except branch
development_client == [client_name |-> "development", api_key |-> "dev_key"]

\* get_client_info: its handler catches Exception, of which HTTPException is
\* a subclass
get_client_info(rate_limit_storage, api_key, current_time) ==
    LET verified == verify_api_key(rate_limit_storage, api_key, current_time)
    IN  IF verified.raised # 0
        THEN [storage |-> verified.storage, raised |-> 0, returned |-> development_client]
        ELSE [storage |-> verified.storage, raised |-> 0, returned |-> verified.returned]

\* the values of the clock
Clock == {0, 59, 60}

\* api keys: two configured keys, a key that is not configured, no key
ApiKeys == {"chainsure_test_key_2024", "chainsure_dev_key_2024", "stolen_key", ""}

\* the state of the module when it is imported: rate_limit_storage is empty.
\* accepted is the history of the timestamps check_rate_limit accepted for a
\* key, checks the number of calls made.
NoRequests ==
    [now |-> 0, rate_limit_storage |-> <<>>, accepted |-> [k \in ApiKeys |-> <<>>],
     checks |-> 0, last |-> [op |-> ""]]

\* the history of accepted timestamps after a call for a key
accepted_after(accepted, api_key, current_time, raised) ==
    IF raised = 0 THEN [accepted EXCEPT ![api_key] = Append(@, current_time)] ELSE accepted

\* time passes
Tick(t) ==
    /\ t > auth.now
    /\ auth' = [auth EXCEPT !.now = t, !.last = [op |-> "tick"]]
    /\ UNCHANGED <<doc, fraud, image, services, calls, http>>

\* one call of check_rate_limit for a configured key, with the rate limit
\* verify_api_key passes for it
CheckRateLimit(api_key) ==
    /\ auth.checks < MaxChecks
    /\ LET checked == check_rate_limit(auth.rate_limit_storage, api_key,
                                       get_rate_limit(matching_clients(api_key)[1][1]),
                                       auth.now)
       IN  auth' = [now |-> auth.now, rate_limit_storage |-> checked.storage,
                    accepted |-> accepted_after(auth.accepted, api_key, auth.now,
                                                checked.raised),
                    checks |-> auth.checks + 1,
                    last |-> [op |-> "check_rate_limit", api_key |-> api_key,
                              before |-> auth.rate_limit_storage,
                              raised |-> checked.raised]]
    /\ UNCHANGED <<doc, fraud, image, services, calls, http>>

\* one request through the dependency get_client_info
GetClientInfo(api_key) ==
    /\ auth.checks < MaxChecks
    /\ LET got == get_client_info(auth.rate_limit_storage, api_key, auth.now)
           verified == verify_api_key(auth.rate_limit_storage, api_key, auth.now)
       IN  auth' = [now |-> auth.now, rate_limit_storage |-> got.storage,
                    accepted |-> IF api_key \in ApiKeys /\ verified.returned # None
                                 THEN accepted_after(auth.accepted, api_key, auth.now, 0)
                                 ELSE auth.accepted,
                    checks |-> auth.checks + 1,
                    last |-> [op |-> "get_client_info", api_key |-> api_key,
                              before |-> auth.rate_limit_storage,
                              verified |-> verified.raised,
                              raised |-> got.raised, returned |-> got.returned]]
    /\ UNCHANGED <<doc, fraud, image, services, calls, http>>
-----------------------------------------------------------------------------
(* The service instances that lifespan builds, and the invocations that run
   on them.  An invocation is a coroutine: between two of its awaits it runs
   alone, and at an await another invocation may run. *)

\* the most invocations in flight at one time
MaxCalls == 2

CallIds == 1..MaxCalls

\* the attributes of the three instances when lifespan has built them and
\* initialize() has returned
lifespan_services ==
    [fraud_service |->
         [model_ready |-> TRUE, fraud_keywords |-> fraud_keywords,
          suspicious_patterns |-> suspicious_patterns,
          amount_thresholds |-> amount_thresholds, fraud_cache |-> <<>>],
     document_validator |->
         [validation_rules |-> validation_rules,
          suspicious_indicators |-> suspicious_indicators],
     image_service |->
         [model_ready |-> TRUE, tampering_thresholds |-> tampering_thresholds]]

\* a slot in which no invocation runs
Idle == [engine |-> "", pc |-> "idle", args |-> <<>>, locals |-> <<>>, result |-> <<>>,
         overlapped |-> FALSE]

NoCalls == [id \in CallIds |-> Idle]

\* the state when lifespan has yielded: the instances are built and nothing
\* has been invoked
StartUp ==
    /\ NoCallYet /\ services = lifespan_services /\ calls = NoCalls
    /\ auth = NoRequests /\ http = NoCall

DocInit == StartUp

DocSpec == DocInit /\ [][DocNext]_vars

\* The calls of validate_document on its exception path: the text is None,
\* or one of the checks raises
DocFaultNext ==
    \/ /\ NoCallYet
       /\ \E document_type \in DocumentTypes, now \in NowDays :
              ValidateDocument(document_type, NoneText, now)
    \/ /\ NoCallYet
       /\ \E document_type \in DocumentTypes, extracted_text \in DocTexts, now \in NowDays,
             i \in 1..Len(DocChecks) :
              ValidateDocumentRaising(document_type, extracted_text, now, DocChecks[i])

DocFaultSpec == StartUp /\ [][DocFaultNext]_vars

FraudInit == StartUp

FraudSpec == FraudInit /\ [][FraudNext]_vars

ImageInit == StartUp

ImageSpec == ImageInit /\ [][ImageNext]_vars

\* The calls whose document type or claim type is in no rule table
LookupMissNext ==
    \/ /\ NoCallYet
       /\ \E document_type \in DocumentTypes \ DOMAIN validation_rules,
             extracted_text \in DocTexts, now \in NowDays :
              ValidateDocument(document_type, extracted_text, now)
    \/ /\ NoCallYet
       /\ \E text \in NarrTexts, claim_type \in ClaimTypeArgs \ DOMAIN amount_thresholds,
             requested_amount \in RequestedAmounts :
              AnalyzeText(text, claim_type, requested_amount)

LookupMissSpec == StartUp /\ [][LookupMissNext]_vars

\* an invocation that has just been entered, about to run its first step
Entered(engine, pc, args) ==
    [engine |-> engine, pc |-> pc, args |-> args, locals |-> <<>>, result |-> <<>>,
     overlapped |-> FALSE]

\* the invocation at its next await, with its local variables as they are then
AtStep(call, pc, locals) == [call EXCEPT !.pc = pc, !.locals = locals]

\* the invocation when it has returned the report
Returned(call, report) == [call EXCEPT !.pc = "done", !.result = report]

\* analyze_text from one await to the next: the local variables of the
\* invocation are the features gathered so far and the fraud score
analyze_text_step(call) ==
    CASE call.pc = "_extract_text_features" ->
           IF call.args.text = NoneText
           THEN Returned(call, fraud_error("_extract_text_features"))
           ELSE AtStep(call, "_analyze_amounts",
                       [features |-> extract_text_features(call.args.text.phrases),
                        fraud_score |-> 0])
      [] call.pc = "_analyze_amounts" ->
           AtStep(call, "_check_suspicious_patterns",
                  [call.locals EXCEPT !.features =
                      @ @@ analyze_amounts(call.args.text.phrases, call.args.claim_type,
                                           call.args.requested_amount)])
      [] call.pc = "_check_suspicious_patterns" ->
           AtStep(call, "_analyze_consistency",
                  [call.locals EXCEPT !.features =
                      @ @@ check_suspicious_patterns(call.args.text.phrases)])
      [] call.pc = "_analyze_consistency" ->
           AtStep(call, "_calculate_fraud_score",
                  [call.locals EXCEPT !.features =
                      @ @@ analyze_consistency(call.args.text.phrases, call.args.claim_type)])
      [] call.pc = "_calculate_fraud_score" ->
           AtStep(call, "_generate_fraud_report",
                  [call.locals EXCEPT !.fraud_score =
                      calculate_fraud_score(call.locals.features, FALSE)])
      [] call.pc = "_generate_fraud_report" ->
           Returned(call, generate_fraud_report(call.locals.features, call.locals.fraud_score,
                                                call.args.claim_type))

\* validate_document from one await to the next: the local variable of the
\* invocation is validation_result
validate_document_step(call) ==
    CASE call.pc = "_validate_text_content" ->
           IF call.args.extracted_text = NoneText
           THEN Returned(call, validation_error("object of type 'NoneType' has no len()"))
           ELSE AtStep(call, "_validate_document_structure",
                       DictUpdate(initial_validation_result,
                                  validate_text_content(call.args.extracted_text.phrases,
                                                        rules_for(call.args.document_type))))
      [] call.pc = "_validate_document_structure" ->
           AtStep(call, "_validate_content_authenticity",
                  merge_validation_results(
                      call.locals,
                      validate_document_structure(call.args.extracted_text.phrases,
                                                  call.args.document_type,
                                                  rules_for(call.args.document_type),
                                                  call.args.now)))
      [] call.pc = "_validate_content_authenticity" ->
           AtStep(call, "_extract_and_validate_data",
                  merge_validation_results(
                      call.locals,
                      validate_content_authenticity(call.args.extracted_text.phrases,
                                                    call.args.document_type)))
      [] call.pc = "_extract_and_validate_data" ->
           AtStep(call, "_calculate_validation_score",
                  with_data_validation(
                      call.locals,
                      extract_and_validate_data(call.args.extracted_text.phrases,
                                                call.args.document_type,
                                                rules_for(call.args.document_type))))
      [] call.pc = "_calculate_validation_score" -> Returned(call, scored(call.locals))

\* analyze_image from one await to the next: the local variables of the
\* invocation are the analyses made so far
analyze_image_step(call) ==
    CASE call.pc = "_basic_image_analysis" ->
           IF ~call.args.img.decodes
           THEN Returned(call, image_error(call.args.filename, "cannot identify image file"))
           ELSE AtStep(call, "_analyze_authenticity", <<>>)
      [] call.pc = "_analyze_authenticity" ->
           AtStep(call, "_assess_damage",
                  [authenticity_analysis |-> analyze_authenticity(call.args.img)])
      [] call.pc = "_assess_damage" ->
           AtStep(call, "_assess_quality",
                  [authenticity_analysis |-> call.locals.authenticity_analysis,
                   damage_analysis |->
                       damage_analysis_for(call.args.img, call.args.analysis_type)])
      [] call.pc = "_assess_quality" ->
           Returned(call, image_result(call.args.filename, call.args.analysis_type,
                                       call.locals.authenticity_analysis,
                                       call.locals.damage_analysis,
                                       assess_quality(call.args.img)))

\* one step of an invocation of any of the three engines
step(call) ==
    CASE call.engine = "analyze_text" -> analyze_text_step(call)
      [] call.engine = "validate_document" -> validate_document_step(call)
      [] call.engine = "analyze_image" -> analyze_image_step(call)

services_cached(instances, call) ==
    [instances EXCEPT !.fraud_service.fraud_cache = call.args]

\* the attributes of the instances after a step of an invocation: no step
\* of the three engines assigns to an attribute of self
services_after(instances, call) == instances

\* the arguments of the invocations
AnalyzeTextArgs ==
    {[text |-> StrText(<<"nEmergency">>), claim_type |-> "health", requested_amount |-> 50000],
     [text |-> StrText(<<"nPaid", "nRoutine">>), claim_type |-> "other",
      requested_amount |-> 50],
     [text |-> NoneText, claim_type |-> "vehicle", requested_amount |-> 5000]}

ValidateDocumentArgs ==
    {[document_type |-> "medical_bill", extracted_text |-> StrText(<<"pPatient", "pService">>),
      now |-> ToOrdinal(2026, 11, 4)],
     [document_type |-> "contract", extracted_text |-> StrText(<<"pLorem", "pFollowUp">>),
      now |-> ToOrdinal(2026, 11, 4)],
     [document_type |-> "general", extracted_text |-> NoneText,
      now |-> ToOrdinal(2026, 11, 4)]}

\* a photo that decodes
Photo ==
    [decodes |-> TRUE, raises |-> {}, compression_score |-> 7001, noise_score |-> 6000,
     color_score |-> 5001, edge_score |-> 8000, exif |-> "edited", edge_density |-> 600,
     total_variance |-> 600, contours |-> <<600, 100, 900>>, total_pixels |-> 2000000,
     blur_score |-> 150, brightness |-> 120, contrast |-> 40]

AnalyzeImageArgs ==
    {[img |-> Photo, filename |-> "photo.jpg", analysis_type |-> "vehicle"],
     [img |-> Photo, filename |-> "scan.jpg", analysis_type |-> "general"],
     [img |-> Undecodable, filename |-> "notes.txt", analysis_type |-> "vehicle"]}

\* the invocations that are between their first step and their return
InFlight == {id \in CallIds : calls[id].pc \notin {"idle", "done"}}

\* the slots when an invocation is entered in slot id: it and the
\* invocations in flight at that moment overlap in time
EnteredIn(id, call) ==
    [j \in CallIds |->
       IF j = id THEN [call EXCEPT !.overlapped = InFlight # {}]
       ELSE IF j \in InFlight THEN [calls[j] EXCEPT !.overlapped = TRUE] ELSE calls[j]]

\* /analyze-claim: the handler finds the fraud service ready and awaits
\* analyze_text
InvokeAnalyzeText(id, args) ==
    /\ calls[id].pc = "idle"
    /\ services.fraud_service.model_ready
    /\ calls' = EnteredIn(id, Entered("analyze_text", "_extract_text_features", args))
    /\ UNCHANGED <<doc, fraud, image, services, auth, http>>

\* /process-document: the handler awaits validate_document
InvokeValidateDocument(id, args) ==
    /\ calls[id].pc = "idle"
    /\ calls' = EnteredIn(id, Entered("validate_document", "_validate_text_content", args))
    /\ UNCHANGED <<doc, fraud, image, services, auth, http>>

\* /analyze-image: the handler finds the image service ready and awaits
\* analyze_image
InvokeAnalyzeImage(id, args) ==
    /\ calls[id].pc = "idle"
    /\ services.image_service.model_ready
    /\ calls' = EnteredIn(id, Entered("analyze_image", "_basic_image_analysis", args))
    /\ UNCHANGED <<doc, fraud, image, services, auth, http>>

\* an invocation in flight runs to its next await, or to its return
Step(id) ==
    /\ id \in InFlight
    /\ calls' = [calls EXCEPT ![id] = step(calls[id])]
    /\ services' = services_after(services, calls[id])
    /\ UNCHANGED <<doc, fraud, image, auth, http>>

\* the handler sends the report and ends
Respond(id) ==
    /\ calls[id].pc = "done"
    /\ calls' = [calls EXCEPT ![id] = Idle]
    /\ UNCHANGED <<doc, fraud, image, services, auth, http>>

ConcInit == StartUp

ConcNext ==
    \/ \E id \in CallIds, args \in AnalyzeTextArgs : InvokeAnalyzeText(id, args)
    \/ \E id \in CallIds, args \in ValidateDocumentArgs : InvokeValidateDocument(id, args)
    \/ \E id \in CallIds, args \in AnalyzeImageArgs : InvokeAnalyzeImage(id, args)
    \/ \E id \in CallIds : Step(id)
    \/ \E id \in CallIds : Respond(id)

ConcSpec == ConcInit /\ [][ConcNext]_vars

\* The calls of the key check, as time passes
AuthNext ==
    \/ \E t \in Clock : Tick(t)
    \/ \E api_key \in {"chainsure_test_key_2024", "chainsure_dev_key_2024"} :
           CheckRateLimit(api_key)
    \/ \E api_key \in ApiKeys : GetClientInfo(api_key)

AuthSpec == StartUp /\ [][AuthNext]_vars


-----------------------------------------------------------------------------
(* The three endpoint handlers of main.py and the exception handlers of the
   app.  A handler is modelled by the status its try block raises (0 when it
   raises none) and the status the client receives. *)

\* AI_SERVICE_CONFIG["max_file_size_mb"] * 1024 * 1024
max_file_size == 50 * 1024 * 1024

\* class DocumentType of models/analysis_models.py
DocumentTypeEnum ==
    {"medical_bill", "prescription", "hospital_report", "vehicle_estimate", "police_report",
     "invoice", "receipt", "photo_id", "insurance_card", "general"}

\* an OCRService whose engines initialize() found
ocr_instance == [tesseract_ready |-> TRUE, easyocr_ready |-> FALSE]

\* is_ready() of a service instance
is_ready(service) ==
    IF "model_ready" \in DOMAIN service THEN service.model_ready
    ELSE service.tesseract_ready \/ service.easyocr_ready

\* not service or not service.is_ready()
not_available(service) == service = None \/ ~is_ready(service)

\* http_exception_handler: the status code of the HTTPException is the
\* status of the response
http_exception_handler(status_code) == status_code

\* the except branch that ends each of the three handlers: except Exception
\* catches what the try block raised, an HTTPException included, and raises
\* HTTPException(500) in its place
handler_answer(raised, body) ==
    IF raised # 0 THEN [raised |-> raised, status |-> http_exception_handler(500)]
    ELSE [raised |-> 0, status |-> 200, body |-> body]

\* analyze_claim: the first statement of its try block that raises
analyze_claim_raised(fraud_service) == IF not_available(fraud_service) THEN 503 ELSE 0

\* analyze_claim
analyze_claim(fraud_service, request) ==
    handler_answer(analyze_claim_raised(fraud_service),
                   analyze_text(request.text, request.claim_type, request.requested_amount, ""))

\* process_document: the first statement of its try block that raises;
\* DocumentType(document_type) raises ValueError (1 here) for a type that is
\* not in the enumeration
process_document_raised(ocr_service, content_length, document_type) ==
    IF content_length > max_file_size THEN 413
    ELSE IF not_available(ocr_service) THEN 503
    ELSE IF document_type \notin DocumentTypeEnum THEN 1
    ELSE 0

\* process_document; text is what the OCR service reads in the file
process_document(ocr_service, content_length, request) ==
    handler_answer(process_document_raised(ocr_service, content_length,
                                           request.document_type),
                   validate_document(request.document_type, request.extracted_text,
                                     request.now))

\* analyze_image of main.py: the first statement of its try block that raises
analyze_image_raised(image_service, content_type, content_length) ==
    IF ~content_type.image THEN 400
    ELSE IF content_length > max_file_size THEN 413
    ELSE IF not_available(image_service) THEN 503
    ELSE 0

\* analyze_image of main.py
analyze_image_endpoint(image_service, content_type, content_length, request) ==
    handler_answer(analyze_image_raised(image_service, content_type, content_length),
                   analyze_image(request.img, request.filename, request.analysis_type))

\* what a global of main.py holds when a request arrives: None when lifespan
\* has not built the instance, an instance that is not ready when its
\* initialize() failed, or a ready instance
MissingOrNotReady(instance) ==
    {None, IF "model_ready" \in DOMAIN instance THEN [instance EXCEPT !.model_ready = FALSE]
           ELSE [instance EXCEPT !.tesseract_ready = FALSE]}

\* the globals of main.py when requests arrive
StartedServices ==
    {[fraud_service |-> f, image_service |-> i, ocr_service |-> o,
      document_validator |-> lifespan_services.document_validator] :
        f \in MissingOrNotReady(lifespan_services.fraud_service)
                \cup {lifespan_services.fraud_service},
        i \in MissingOrNotReady(lifespan_services.image_service)
                \cup {lifespan_services.image_service},
        o \in MissingOrNotReady(ocr_instance) \cup {ocr_instance}}

\* sizes of an upload: empty, at the limit, above it
ContentLengths == {0, max_file_size, max_file_size + 1}

\* content types of an upload: startswith('image/') or not
ContentTypes ==
    {[name |-> "image/jpeg", image |-> TRUE], [name |-> "application/pdf", image |-> FALSE]}

\* POST /analyze-claim
AnalyzeClaim(request) ==
    /\ http' = [called |-> TRUE, endpoint |-> "/analyze-claim",
                answer |-> analyze_claim(services.fraud_service, request)]
    /\ UNCHANGED <<doc, fraud, image, services, calls, auth>>

\* POST /process-document
ProcessDocument(content_length, request) ==
    /\ http' = [called |-> TRUE, endpoint |-> "/process-document",
                content_length |-> content_length,
                answer |-> process_document(services.ocr_service, content_length, request)]
    /\ UNCHANGED <<doc, fraud, image, services, calls, auth>>

\* POST /analyze-image
AnalyzeImageUpload(content_type, content_length, request) ==
    /\ http' = [called |-> TRUE, endpoint |-> "/analyze-image",
                content_type |-> content_type, content_length |-> content_length,
                answer |-> analyze_image_endpoint(services.image_service, content_type,
                                                  content_length, request)]
    /\ UNCHANGED <<doc, fraud, image, services, calls, auth>>

HttpInit ==
    /\ NoCallYet /\ calls = NoCalls /\ auth = NoRequests /\ http = NoCall
    /\ services \in StartedServices

\* one request to one of the three endpoints
HttpNext ==
    \/ /\ http = NoCall
       /\ \E request \in AnalyzeTextArgs : AnalyzeClaim(request)
    \/ /\ http = NoCall
       /\ \E content_length \in ContentLengths, request \in ValidateDocumentArgs :
              ProcessDocument(content_length, request)
    \/ /\ http = NoCall
       /\ \E content_type \in ContentTypes, content_length \in ContentLengths,
             request \in AnalyzeImageArgs :
              AnalyzeImageUpload(content_type, content_length, request)

HttpSpec == HttpInit /\ [][HttpNext]_vars

-----------------------------------------------------------------------------
(* The operations of a FraudDetectionService instance, one after another *)

\* FraudDetectionService.__init__: the attributes of a new instance
new_fraud_service == [lifespan_services.fraud_service EXCEPT !.model_ready = FALSE]

\* initialize: model_ready is True, or False from its except branch when
\* the construction of a model raises
initialize(service, raises) == [service EXCEPT !.model_ready = ~raises]

update_model_caching(service, training_data) ==
    [service EXCEPT !.fraud_cache = [claim \in training_data |-> 8000]]

\* update_model: it logs, and assigns nothing
update_model(service, training_data) == service

RECURSIVE cache_total(_, _)
\* the sum of the scores held in fraud_cache under the keys in keys
cache_total(fraud_cache, keys) == IF keys = {} THEN 0 ELSE LET k == CHOOSE x \in keys : TRUE IN fraud_cache[k] + cache_total(fraud_cache, keys \ {k})

\* get_fraud_statistics; np.mean of the scores, 0.0 for the empty cache
get_fraud_statistics(service) ==
    [total_analyses |-> Cardinality(DOMAIN service.fraud_cache),
     high_risk_count |->
         Cardinality({k \in DOMAIN service.fraud_cache : service.fraud_cache[k] > 7000}),
     low_risk_count |->
         Cardinality({k \in DOMAIN service.fraud_cache : service.fraud_cache[k] < 3000}),
     average_fraud_score |->
         IF DOMAIN service.fraud_cache # {}
         THEN cache_total(service.fraud_cache, DOMAIN service.fraud_cache)
                  \div Cardinality(DOMAIN service.fraud_cache)
         ELSE 0,
     model_ready |-> service.model_ready]

\* the operations called on the instance so far
history_after(op) == (IF "history" \in DOMAIN fraud THEN fraud.history ELSE {}) \cup {op}

\* await fraud_service.initialize()
Initialize(raises) ==
    /\ services' = [services EXCEPT !.fraud_service = initialize(@, raises)]
    /\ fraud' = [called |-> TRUE, op |-> "initialize", history |-> history_after("initialize")]
    /\ UNCHANGED <<doc, image, calls, auth, http>>

\* await fraud_service.analyze_text(...)
ServiceAnalyzeText(args) ==
    /\ services' = services_after(services, [args |-> args])
    /\ fraud' = [called |-> TRUE, op |-> "analyze_text", text |-> args.text,
                 claim_type |-> args.claim_type, requested_amount |-> args.requested_amount,
                 raises |-> "",
                 result |-> analyze_text(args.text, args.claim_type, args.requested_amount, ""),
                 history |-> history_after("analyze_text")]
    /\ UNCHANGED <<doc, image, calls, auth, http>>

\* await fraud_service.update_model(training_data)
UpdateModel(training_data) ==
    /\ services' = [services EXCEPT !.fraud_service = update_model(@, training_data)]
    /\ fraud' = [called |-> TRUE, op |-> "update_model",
                 history |-> history_after("update_model")]
    /\ UNCHANGED <<doc, image, calls, auth, http>>

\* fraud_service.get_fraud_statistics()
GetFraudStatistics ==
    /\ fraud' = [called |-> TRUE, op |-> "get_fraud_statistics",
                 result |-> get_fraud_statistics(services.fraud_service),
                 history |-> history_after("get_fraud_statistics")]
    /\ UNCHANGED <<doc, image, services, calls, auth, http>>

\* the arguments of analyze_text: every narrative of one phrase
ServiceAnalyzeTextArgs ==
    [text : {StrText(<<p>>) : p \in NarrVocab} \cup {NoneText},
     claim_type : {"health", "other"}, requested_amount : {50, 60000}]

\* the instance when its constructor has returned
FraudServiceInit ==
    /\ NoCallYet /\ calls = NoCalls /\ auth = NoRequests /\ http = NoCall
    /\ services = [lifespan_services EXCEPT !.fraud_service = new_fraud_service]

FraudServiceNext ==
    \/ \E raises \in BOOLEAN : Initialize(raises)
    \/ \E args \in ServiceAnalyzeTextArgs : ServiceAnalyzeText(args)
    \/ \E training_data \in {{}, {"claim-1", "claim-2"}} : UpdateModel(training_data)
    \/ GetFraudStatistics

FraudServiceSpec == FraudServiceInit /\ [][FraudServiceNext]_vars

-----------------------------------------------------------------------------
(* Properties of validate_document, checked under DocSpec *)

\* the call of validate_document took the path that ends in its return, not
\* the one through its except branch
DocNormalPath == doc.called /\ doc.extracted_text # NoneText

\* C1: for every call of validate_document, the exception path included,
\* validation_score lies in [0,1] and is_valid is true exactly when
\* validation_score >= 0.6.
C1_ScoreInRangeAndValidIffAtLeast06 ==
    doc.called =>
        /\ doc.result["validation_score"] \in 0..Scale
        /\ doc.result["is_valid"] <=> (doc.result["validation_score"] >= 6000)

\* C1, its case: a call on the normal path that scores exactly 0.6, which
\* is the lowest score that is valid
C1_Witness ==
    /\ DocNormalPath
    /\ doc.result["validation_score"] = 6000
    /\ doc.result["is_valid"]

\* what the four checks of validate_document report for the text of the call
TextIssues ==
    validate_text_content(doc.extracted_text.phrases,
        rules_for(doc.document_type))[1][2]

StructureIssues ==
    validate_document_structure(doc.extracted_text.phrases, doc.document_type,
        rules_for(doc.document_type),
        doc.now)[1][2]

AuthenticityIssues ==
    validate_content_authenticity(doc.extracted_text.phrases, doc.document_type)[1][2]

AuthenticityScore ==
    validate_content_authenticity(doc.extracted_text.phrases, doc.document_type)[2][2]

ExtractionIssues ==
    extract_and_validate_data(doc.extracted_text.phrases, doc.document_type,
        rules_for(doc.document_type))[1][2]

\* C3: on the normal path the final validation_score is
\* ((1 - min(0.8, 0.1 * issue_count)) * confidence + authenticity_score) / 2
\* clamped to [0,1], with the authenticity_score of the content-authenticity
\* check and the length of the final issues list.
C3_ScoreUsesAuthenticityScore ==
    DocNormalPath =>
        LET issue_count == Len(doc.result["issues"])
            base == ((Scale - Min(8000, 1000 * issue_count)) * doc.result["confidence"]) \div Scale
        IN  doc.result["validation_score"]
              = Max(0, Min(Scale, (base + AuthenticityScore) \div 2))

\* C4: on the normal path the final issues list is the issues of the
\* text-quality check, then of the structural check, then of the
\* authenticity check, then of the extraction check.
C4_IssuesAreAllFourChecksInOrder ==
    DocNormalPath =>
        doc.result["issues"]
          = TextIssues \o StructureIssues \o AuthenticityIssues \o ExtractionIssues

-----------------------------------------------------------------------------
(* Properties of analyze_text, checked under FraudSpec *)

\* a call of analyze_text has returned
FraudCall == fraud.called /\ fraud.op = "analyze_text"

\* the call took the except branch of analyze_text
FraudErrorPath ==
    /\ FraudCall
    /\ \/ fraud.text = NoneText
       \/ fraud.raises \in {Steps[i] : i \in 1..Len(Steps)} \ {"_calculate_fraud_score"}

\* C2: for every call of analyze_text, the exception path included, the
\* returned fraud_score and confidence both lie in [0,1].
C2_FraudScoreAndConfidenceInRange ==
    FraudCall =>
        /\ fraud.result["fraud_score"] \in 0..Scale
        /\ fraud.result["confidence"] \in 0..Scale

\* C2, its case: a call on the normal path with a positive score and the
\* three confidence factors at 0.8, 0.9 and 0.8, the highest confidence
C2_Witness ==
    /\ FraudCall /\ ~FraudErrorPath
    /\ fraud.result["fraud_score"] > 0
    /\ fraud.result["confidence"] = 8333

\* the recommendation the priority order of C5 gives
C5_Recommendation(fraud_score, confidence) ==
    CASE fraud_score > 7000 /\ confidence > 6000 -> "high_risk_reject"
      [] ~(fraud_score > 7000 /\ confidence > 6000) /\ fraud_score > 5000 ->
           "manual_review_required"
      [] fraud_score < 3000 /\ confidence > 7000 -> "low_risk_approve"
      [] OTHER -> "standard_review"

\* C5: the recommendation is the function of (fraud_score, confidence) that
\* tries, in this order, score > 0.7 and confidence > 0.6 (high_risk_reject),
\* score > 0.5 (manual_review_required), score < 0.3 and confidence > 0.7
\* (low_risk_approve), and else gives standard_review.
C5_RecommendationByPriority ==
    /\ (fraud.called /\ fraud.op = "_get_recommendation") =>
           fraud.result = C5_Recommendation(fraud.fraud_score, fraud.confidence)
    /\ (FraudCall /\ ~FraudErrorPath) =>
           fraud.result["recommendation"]
             = C5_Recommendation(fraud.result["fraud_score"], fraud.result["confidence"])

\* C5, its case: a score above 0.7 with a confidence above 0.6, where the
\* first rule wins over the second
C5_Witness ==
    /\ fraud.called /\ fraud.op = "_get_recommendation"
    /\ fraud.fraud_score = 7001 /\ fraud.confidence = 6001
    /\ fraud.result = "high_risk_reject"

\* the weight C6 gives a feature, in hundredths
C6_Weight(feature_name) ==
    CASE feature_name = "fraud_keyword_ratio" -> 25
      [] feature_name = "amount_anomaly_score" -> 20
      [] feature_name = "suspicious_pattern_count" -> 15
      [] feature_name = "consistency_score" -> 15
      [] feature_name = "amount_consistency" -> 10
      [] feature_name = "round_amount_ratio" -> 10
      [] feature_name = "missing_info_count" -> 5
      [] OTHER -> 0

\* the normalized value of a feature: ratios times 5, counts times 0.2,
\* 1 - consistency_score, each clamped to [0,1]
C6_Normalized(feature_name, value) ==
    Max(0, Min(Scale,
        CASE feature_name \in {"fraud_keyword_ratio", "round_amount_ratio"} -> 5 * value
          [] feature_name \in {"suspicious_pattern_count", "missing_info_count"} -> 2000 * value
          [] feature_name = "consistency_score" -> Scale - value
          [] OTHER -> value))

RECURSIVE C6_Sum(_, _, _)
\* the sum of F(k, features[k]) over the features k of the set S
C6_Sum(F(_, _), features, S) ==
    IF S = {} THEN 0
    ELSE LET k == CHOOSE x \in S : TRUE
         IN  F(k, features[k]) + C6_Sum(F, features, S \ {k})

\* the score C6 gives a feature bag that holds a weighted feature
C6_Score(features) ==
    LET numerator ==
            C6_Sum(LAMBDA k, v : C6_Weight(k) * C6_Normalized(k, v), features, DOMAIN features)
        denominator == C6_Sum(LAMBDA k, v : C6_Weight(k), features, DOMAIN features)
    IN  Max(0, Min(Scale, numerator \div denominator))

\* C6: the fraud score is the weighted sum of the normalized features
\* divided by the sum of the weights of the features present, clamped to
\* [0,1]; an absent feature is left out of numerator and denominator.
C6_ScoreIsRenormalizedWeightedSum ==
    /\ (fraud.called /\ fraud.op = "_calculate_fraud_score" /\ DOMAIN fraud.features # {}) =>
           fraud.result = C6_Score(fraud.features)
    /\ (FraudCall /\ ~FraudErrorPath /\ fraud.raises = "") =>
           fraud.result["fraud_score"]
             = C6_Score([k \in {weights[i][1] : i \in 1..Len(weights)} |->
                           fraud.result["feature_analysis"][k]])

\* C6, its case: a bag that lacks five of the seven features, scored on
\* the two it holds
C6_Witness ==
    /\ fraud.called /\ fraud.op = "_calculate_fraud_score"
    /\ DOMAIN fraud.features = {"fraud_keyword_ratio", "missing_info_count"}
    /\ fraud.features["fraud_keyword_ratio"] = 1250
    /\ fraud.features["missing_info_count"] = 1
    /\ fraud.result = 5541

\* the step of the call in which an exception is raised, "" when none is
FailedStep == IF fraud.text = NoneText THEN "_extract_text_features" ELSE fraud.raises

\* the report is the neutral one: fraud_score 0.5, confidence 0.0 and one
\* issue, which carries the error message
NeutralErrorReport ==
    /\ fraud.result["fraud_score"] = 5000
    /\ fraud.result["confidence"] = 0
    /\ Len(fraud.result["issues"]) = 1
    /\ fraud.result["issues"][1] = Issue("Analysis error", FailedStep)

Recommendations ==
    {"high_risk_reject", "manual_review_required", "low_risk_approve", "standard_review"}

\* C8: every report of analyze_text, on the normal path and on the error
\* path, contains fraud_score, confidence, issues, risk_factors and a
\* recommendation that is one of the four values.
C8_EveryReportHasScoreReportShape ==
    FraudCall =>
        /\ {"fraud_score", "confidence", "issues", "risk_factors", "recommendation"}
             \subseteq DOMAIN fraud.result
        /\ fraud.result["recommendation"] \in Recommendations

-----------------------------------------------------------------------------
(* Properties of analyze_image, checked under ImageSpec *)

\* a call of analyze_image on an image that decodes has returned
DecodedImageCall == image.called /\ image.op = "analyze_image" /\ image.img.decodes

\* C9: for an image that decodes, the result of analyze_image contains
\* damage_assessment and estimated_cost exactly when analysis_type is one of
\* vehicle, health, property.
C9_DamageKeysIffDamageRelevant ==
    DecodedImageCall =>
        /\ "damage_assessment" \in DOMAIN image.result
             <=> image.analysis_type \in {"vehicle", "health", "property"}
        /\ "estimated_cost" \in DOMAIN image.result
             <=> image.analysis_type \in {"vehicle", "health", "property"}

\* the metadata check of the image of the call finds something suspicious
MetadataSuspicious == image.img.exif # "clean"

\* C10: for an image that decodes, the authenticity_score that analyze_image
\* returns is 1.0 minus 0.2 for compression above 0.7, 0.15 for noise above
\* 0.6, 0.2 for colour above 0.5, 0.25 for edges above 0.8 and 0.1 for
\* suspicious metadata, clamped to [0,1]; with no deduction, or with that of
\* the metadata alone, it is at least 0.9.
C10_AuthenticityScoreIsOneMinusDeductions ==
    DecodedImageCall =>
        /\ image.result["authenticity_score"]
             = Max(0, Min(Scale,
                   Scale - (IF image.img.compression_score > 7000 THEN 2000 ELSE 0)
                         - (IF image.img.noise_score > 6000 THEN 1500 ELSE 0)
                         - (IF image.img.color_score > 5000 THEN 2000 ELSE 0)
                         - (IF image.img.edge_score > 8000 THEN 2500 ELSE 0)
                         - (IF MetadataSuspicious THEN 1000 ELSE 0)))
        /\ ( /\ image.img.compression_score <= 7000 /\ image.img.noise_score <= 6000
             /\ image.img.color_score <= 5000 /\ image.img.edge_score <= 8000
             /\ ~MetadataSuspicious )
           => image.result["authenticity_score"] >= 9000
-----------------------------------------------------------------------------
(* Scenarios and relations of validate_document, checked under DocSpec *)

\* the returned issues list holds an issue of the given wording
HasIssue(kind) ==
    \E i \in 1..Len(doc.result["issues"]) : doc.result["issues"][i][1] = kind

\* C11: for a medical_bill document whose text is shorter than 50
\* characters, validate_document returns is_valid false and an issues list
\* holding the issue about the minimum text length.
C11_ShortMedicalBillIsInvalidWithLengthIssue ==
    (/\ DocNormalPath
     /\ doc.document_type = "medical_bill"
     /\ TextLen(doc.extracted_text.phrases) < 50)
        => (~doc.result["is_valid"] /\ HasIssue("Text too short"))

\* validate_document has been called twice with the same arguments, on two
\* different days
DocCalledAgain == doc.called /\ doc.again

\* C14: two invocations of the same engine with identical inputs return
\* identical scores and identical issue lists, whatever the wall-clock time
\* of each invocation.
C14_SameInputsSameScoreAndIssues ==
    DocCalledAgain =>
        /\ doc.result_later["validation_score"] = doc.result["validation_score"]
        /\ doc.result_later["issues"] = doc.result["issues"]

\* the calendar day a date string of the extracted data names, whichever of
\* the formats of _extract_dates it is written in
CalendarDay(date_str) ==
    CASE date_str = "01/15/2024" -> ToOrdinal(2024, 1, 15)
      [] date_str = "2024-01-26" -> ToOrdinal(2024, 1, 26)
      [] date_str = "03/01/2025" -> ToOrdinal(2025, 3, 1)
      [] date_str = "2025-03-01" -> ToOrdinal(2025, 3, 1)
      [] date_str = "12/20/2026" -> ToOrdinal(2026, 12, 20)

\* C19: whenever the dates list of the extracted data holds two dates that
\* lie 400 days apart, in any format the extractor puts into the list, the
\* issues returned by validate_document contain "Inconsistent dates
\* detected".
C19_Dates400DaysApartAreReportedInconsistent ==
    (/\ DocNormalPath
     /\ \E d1 \in doc.result["extracted_data"]["dates"],
           d2 \in doc.result["extracted_data"]["dates"] :
            CalendarDay(d2) - CalendarDay(d1) = 400)
        => HasIssue("Inconsistent dates detected")

-----------------------------------------------------------------------------
(* Scenarios and relations of analyze_text, checked under FraudSpec *)

\* C12: analyze_text on the narrative "Emergency surgery needed ASAP, cash
\* only, no receipt" with claim type health and claimed amount 50000 returns
\* fraud_score > 0.5 and risk_factors containing "suspicious_language".
C12_EmergencyCashNarrativeScoresAboveHalf ==
    (/\ FraudCall
     /\ fraud.raises = ""
     /\ fraud.text = StrText(<<"nEmergency">>)
     /\ fraud.claim_type = "health"
     /\ fraud.requested_amount = 50000)
        => /\ fraud.result["fraud_score"] > 5000
           /\ \E i \in 1..Len(fraud.result["risk_factors"]) :
                  fraud.result["risk_factors"][i] = "suspicious_language"

\* two calls of analyze_text have returned, the second on the narrative of
\* the first with one more fraud keyword in it
FraudPair == fraud.called /\ fraud.op = "analyze_text twice"

\* C13: for any two narratives that differ only in that the second
\* contains more fraud keywords (same claim type, same claimed amount, the
\* rest of the text fixed), the fraud_score of the second is at least the
\* fraud_score of the first.
C13_MoreKeywordsNeverLowerScore ==
    FraudPair => fraud.result_more["fraud_score"] >= fraud.result["fraud_score"]

\* the sub-checks of analyze_text: the four feature extractors
SubChecks ==
    {"_extract_text_features", "_analyze_amounts", "_check_suspicious_patterns",
     "_analyze_consistency"}

\* what a sub-check finds on the arguments of the call
SubCheckFeatures(sub_check) ==
    CASE sub_check = "_extract_text_features" -> extract_text_features(fraud.text.phrases)
      [] sub_check = "_analyze_amounts" ->
           analyze_amounts(fraud.text.phrases, fraud.claim_type, fraud.requested_amount)
      [] sub_check = "_check_suspicious_patterns" ->
           check_suspicious_patterns(fraud.text.phrases)
      [] sub_check = "_analyze_consistency" ->
           analyze_consistency(fraud.text.phrases, fraud.claim_type)

\* C17: an error inside one sub-check is caught at the boundary of that
\* sub-check: the report carries an issue for it, and the sibling sub-checks
\* of the invocation still run and their results appear in the report.
C17_FailingSubCheckLeavesSiblingResults ==
    (FraudCall /\ fraud.text # NoneText /\ fraud.raises \in SubChecks) =>
        /\ \E i \in 1..Len(fraud.result["issues"]) :
               fraud.result["issues"][i][1] = "Analysis error"
        /\ "feature_analysis" \in DOMAIN fraud.result
        /\ \A sibling \in SubChecks \ {fraud.raises} :
               \A key \in DOMAIN SubCheckFeatures(sibling) :
                   /\ key \in DOMAIN fraud.result["feature_analysis"]
                   /\ fraud.result["feature_analysis"][key] = SubCheckFeatures(sibling)[key]

-----------------------------------------------------------------------------
(* Properties of concurrent invocations, checked under ConcSpec *)

\* the report the invocation returns when it runs alone
solo_report(call) ==
    CASE call.engine = "analyze_text" ->
           analyze_text(call.args.text, call.args.claim_type, call.args.requested_amount, "")
      [] call.engine = "validate_document" ->
           validate_document(call.args.document_type, call.args.extracted_text, call.args.now)
      [] call.engine = "analyze_image" ->
           analyze_image(call.args.img, call.args.filename, call.args.analysis_type)

\* C15: for any interleaving of concurrent invocations of analyze_text,
\* validate_document and analyze_image on the shared instances, each
\* invocation returns the report it returns when run alone, and the
\* attributes of the instances, rule tables and thresholds included, stay as
\* construction left them.
C15_ConcurrentCallsReturnSoloReports ==
    /\ services = lifespan_services
    /\ \A id \in CallIds :
           calls[id].pc = "done" => calls[id].result = solo_report(calls[id])

\* C15, its case: an invocation of analyze_text has returned its report
\* after it overlapped in time with an invocation of the same engine on
\* other arguments, which is still in flight past its first step
C15_Witness ==
    \E id \in CallIds, other \in CallIds :
        /\ calls[id].pc = "done" /\ calls[id].overlapped
        /\ calls[id].engine = "analyze_text" /\ "recommendation" \in DOMAIN calls[id].result
        /\ calls[other].engine = "analyze_text"
        /\ calls[other].pc \notin {"idle", "done", "_extract_text_features"}
        /\ calls[other].overlapped
        /\ calls[other].args # calls[id].args

-----------------------------------------------------------------------------
(* Properties of the steps of analyze_image, checked under ImageSpec *)

\* _analyze_authenticity has returned for an image on which the measurement
\* of at least one sub-detector raises
SubDetectorRaised ==
    image.called /\ image.op = "_analyze_authenticity" /\ image.img.raises # {}

\* the key under which _analyze_authenticity reports the score of a
\* sub-detector
SubScoreKey(detector) ==
    CASE detector = "_check_compression_artifacts" -> "compression_score"
      [] detector = "_check_noise_patterns" -> "noise_score"
      [] detector = "_check_color_consistency" -> "color_score"
      [] detector = "_check_edge_discontinuities" -> "edge_score"

\* C16: when an image sub-detector (compression, noise, colour consistency,
\* edge discontinuity) raises, it contributes the neutral sub-score 0.5, the
\* report of the authenticity analysis carries an "error" field, and the
\* analysis returns a report with a score.
C16_RaisingSubDetectorGivesNeutralSubScoreAndError ==
    SubDetectorRaised =>
        /\ \A detector \in image.img.raises :
               Get(image.result, SubScoreKey(detector), -1) = 5000
        /\ "error" \in DOMAIN image.result
        /\ "score" \in DOMAIN image.result

\* _assess_damage has returned for an image
DamageAssessed == image.called /\ image.op = "_assess_damage"

\* the areas of the contours of the image of the call that are above the
\* area threshold
QualifyingAreas == {image.img.contours[i] : i \in {j \in 1..Len(image.img.contours) :
                                                     image.img.contours[j] > 500}}

\* the areas of the locations the call returned
ReturnedAreas ==
    {image.result["damage_locations"][i] : i \in 1..Len(image.result["damage_locations"])}

\* C20: the damage-location step returns at most 5 locations, and they are
\* the qualifying contours (area above the threshold) with the largest
\* areas: no contour left out has a larger area than one that is included.
C20_LocationsAreTheFiveLargest ==
    DamageAssessed =>
        /\ Len(image.result["damage_locations"]) = Min(5, Cardinality(QualifyingAreas))
        /\ ReturnedAreas \subseteq QualifyingAreas
        /\ \A left_out \in QualifyingAreas \ ReturnedAreas :
               \A included \in ReturnedAreas : left_out <= included

-----------------------------------------------------------------------------
(* Properties of the rule-table lookups, checked under LookupMissSpec *)

\* validate_document has returned for a text and a document type that has
\* no entry in validation_rules
DocLookupMiss == DocNormalPath /\ doc.document_type \notin DOMAIN validation_rules

\* analyze_text has returned for a narrative and a claim type that has no
\* entry in amount_thresholds
FraudLookupMiss ==
    FraudCall /\ ~FraudErrorPath /\ fraud.claim_type \notin DOMAIN amount_thresholds

\* C18: a rule-table lookup miss never produces the error report:
\* validate_document with a document type that has no rule-table entry
\* returns exactly what it returns for "general" on the same text, and
\* analyze_text with a claim type that has no threshold entry returns a
\* complete non-error report computed with the default (health) table.
C18_LookupMissFallsBackToDefaultTable ==
    /\ DocLookupMiss =>
           /\ doc.result = validate_document("general", doc.extracted_text, doc.now)
           /\ ~HasIssue("Validation error")
    /\ FraudLookupMiss =>
           /\ {"fraud_score", "confidence", "risk_factors", "issues", "recommendation"}
                  \subseteq DOMAIN fraud.result
           /\ \A i \in 1..Len(fraud.result["issues"]) :
                  fraud.result["issues"][i][1] # "Analysis error"
           /\ fraud.result["feature_analysis"]["amount_anomaly_score"]
                  = analyze_amounts(fraud.text.phrases, "health",
                                    fraud.requested_amount)["amount_anomaly_score"]

\* C18, its case: analyze_text has returned for a claim type that has no
\* threshold entry and an amount above the high threshold of the default
\* table, which the report scores as unusually high
C18_Witness ==
    /\ FraudLookupMiss
    /\ fraud.requested_amount > amount_thresholds["health"].high
    /\ fraud.result["feature_analysis"]["amount_anomaly_score"] = 8000
    /\ "recommendation" \in DOMAIN fraud.result


-----------------------------------------------------------------------------
(* Properties of the cost estimate of _assess_damage, checked under ImageSpec *)

\* _assess_damage has returned for one of the three categories that have a
\* row of base costs
CostEstimated == DamageAssessed /\ image.damage_type \in {"vehicle", "health", "property"}

\* the base cost of the claim for a category and a severity level; a level
\* that the table lacks has none (-1)
BaseCostOf(category, level) ==
    IF level \in DOMAIN base_costs[category] THEN base_costs[category][level] ELSE -1

\* C21: for every category in {vehicle, health, property} and every severity
\* result the severity step hands over (minor, moderate, severe, and the
\* level it reports when it fails), the estimated cost equals
\* base_cost[category][level] * (0.5 + severity_score); for vehicle that is
\* 350 for minor, 2000 for moderate and 10400 for severe.  Costs in cents.
C21_CostIsBaseCostScaledBySeverity ==
    CostEstimated =>
        /\ BaseCostOf(image.damage_type, image.result["severity"]["level"]) >= 0
        /\ image.result["estimated_cost"] * 100
             = BaseCostOf(image.damage_type, image.result["severity"]["level"])
                 * (5000 + image.result["severity"]["score"])
        /\ image.damage_type = "vehicle" =>
             image.result["estimated_cost"]
               = (CASE image.result["severity"]["level"] = "minor" -> 35000
                    [] image.result["severity"]["level"] = "moderate" -> 200000
                    [] image.result["severity"]["level"] = "severe" -> 1040000
                    [] OTHER -> image.result["estimated_cost"])


-----------------------------------------------------------------------------
(* Properties of validate_document on its exception path, checked under
   DocFaultSpec *)

\* validate_document has returned from a call in which a check raised
DocErrorPath == doc.called /\ (doc.extracted_text = NoneText \/ "raises" \in DOMAIN doc)

\* C22: validate_document never raises to its caller: when any check raises,
\* the call returns is_valid false, validation_score 0.0, confidence 0.0, an
\* empty extracted_data map and an issues list holding exactly one entry,
\* which describes the error.
C22_RaisingCheckGivesInvalidZeroReport ==
    DocErrorPath =>
        /\ DOMAIN doc.result
             = {"is_valid", "validation_score", "issues", "extracted_data", "confidence"}
        /\ ~doc.result["is_valid"]
        /\ doc.result["validation_score"] = 0
        /\ doc.result["confidence"] = 0
        /\ doc.result["extracted_data"] = <<>>
        /\ Len(doc.result["issues"]) = 1
        /\ doc.result["issues"][1][1] = "Validation error"

\* C22, its case: the content-authenticity check raises on a text that is
\* not None, after two checks have run, and the call returns the one issue
C22_Witness ==
    /\ DocErrorPath
    /\ doc.extracted_text # NoneText
    /\ doc.raises = "_validate_content_authenticity"
    /\ doc.result["issues"] = <<Issue("Validation error", "_validate_content_authenticity")>>
    /\ doc.result["validation_score"] = 0

-----------------------------------------------------------------------------
(* Properties of the score of validate_document, checked under DocSpec *)

\* C26: a document is never declared invalid by issue count alone: on the
\* non-error path of validate_document, whenever the content-authenticity
\* check deducts nothing (authenticity_score = 1.0), validation_score >= 0.6
\* and is_valid is true, however many issues the structural and extraction
\* checks report.
C26_FullAuthenticityMeansValid ==
    (DocNormalPath /\ AuthenticityScore = Scale) =>
        /\ doc.result["validation_score"] >= 6000
        /\ doc.result["is_valid"]

\* C26, its case: the authenticity check deducts nothing, the other checks
\* report more issues than the deduction counts, and the score is the
\* lowest valid one
C26_Witness ==
    /\ DocNormalPath
    /\ AuthenticityScore = Scale
    /\ AuthenticityIssues = <<>>
    /\ Len(doc.result["issues"]) > 8
    /\ Len(StructureIssues) > 0 /\ Len(ExtractionIssues) > 0
    /\ doc.result["validation_score"] = 6000
    /\ doc.result["is_valid"]

\* the document types whose rule table lists required fields
TypesWithRequiredFields ==
    {"medical_bill", "vehicle_estimate", "invoice", "receipt", "police_report"}

\* the required fields reported as missing in the issues of the result
ReportedMissing ==
    {doc.result["issues"][i][2] : i \in {j \in 1..Len(doc.result["issues"]) : doc.result["issues"][j][1] = "Required field missing"}}

\* C30: for every document type whose rule table lists required fields and
\* every extracted text, the non-error result of validate_document holds
\* at least one "Required field missing" issue: each list names a field
\* (amount, estimate_amount, date, merchant, report_number,
\* incident_description) that the extraction never produces under that name.
C30_RequiredFieldAlwaysMissing ==
    (DocNormalPath /\ doc.document_type \in TypesWithRequiredFields) =>
        /\ HasIssue("Required field missing")
        /\ ReportedMissing \cap {"amount", "estimate_amount", "date", "merchant", "report_number", "incident_description"} # {}

\* C30, its case: a medical bill whose text yields the patient name, the
\* service date and the provider, and an amount under the name "amounts":
\* the only field reported missing is amount
C30_Witness ==
    /\ DocNormalPath /\ doc.document_type = "medical_bill"
    /\ ReportedMissing = {"amount"}
    /\ doc.result["extracted_data"]["amounts"] # <<>>

-----------------------------------------------------------------------------
(* Properties of the key check, checked under AuthSpec *)

\* the configured keys among the keys of the requests
ConfiguredKeys == {k \in ApiKeys : matching_clients(k) # <<>>}

\* requests_per_minute of the client of a configured key
RateLimitOf(api_key) == get_rate_limit(matching_clients(api_key)[1][1]).requests_per_minute

\* the requests accepted for a key whose timestamp is in the 60 seconds
\* that start at second a
AcceptedIn(api_key, a) ==
    {i \in 1..Len(auth.accepted[api_key]) :
        a <= auth.accepted[api_key][i] /\ auth.accepted[api_key][i] < a + 60}

\* check_rate_limit has just been called for a key, by itself or from
\* verify_api_key
RateChecked ==
    \/ auth.last.op = "check_rate_limit"
    \/ auth.last.op = "get_client_info" /\ auth.last.api_key \in ConfiguredKeys

\* the status that call raised, 0 when it returned
RateStatus ==
    IF auth.last.op = "check_rate_limit" THEN auth.last.raised ELSE auth.last.verified

\* the number of accepted requests the 60 seconds up to the call held for
\* the key before the call
HeldBefore ==
    Cardinality(AcceptedIn(auth.last.api_key, auth.now - 59))
      - (IF RateStatus = 0 THEN 1 ELSE 0)

\* the timestamps of the key that were stored before the call and are less
\* than 60 seconds old at the call
StoredBefore ==
    IF auth.last.api_key \in DOMAIN auth.last.before
    THEN SelectSeq(auth.last.before[auth.last.api_key], LAMBDA ts : ts > auth.now - 60)
    ELSE <<>>

\* C23: for every API key and every sequence of check_rate_limit calls with
\* non-decreasing clock values, the number of requests accepted for the key
\* with timestamps in any 60-second window never exceeds the key's
\* requests_per_minute; a call made while the window already holds that many
\* accepted requests is rejected with status 429 and is not recorded, so it
\* does not push back the moment at which requests are accepted again.
C23_AcceptedPerWindowWithinLimit ==
    /\ \A api_key \in ConfiguredKeys, a \in 0..SetMax(Clock) :
           Cardinality(AcceptedIn(api_key, a)) <= RateLimitOf(api_key)
    /\ RateChecked =>
           /\ (HeldBefore >= RateLimitOf(auth.last.api_key)) <=> (RateStatus = 429)
           /\ RateStatus \in {0, 429}
           /\ RateStatus = 429 =>
                  auth.rate_limit_storage[auth.last.api_key] = StoredBefore
           /\ RateStatus = 0 =>
                  auth.rate_limit_storage[auth.last.api_key] = Append(StoredBefore, auth.now)

\* C23, its case: the test key, whose limit is 10, has had 10 requests
\* accepted at second 0, and a call at second 59 is rejected
C23_Witness ==
    /\ auth.last.op = "check_rate_limit"
    /\ auth.last.api_key = "chainsure_test_key_2024"
    /\ auth.now = 59
    /\ auth.last.raised = 429
    /\ Len(auth.accepted["chainsure_test_key_2024"]) = 10
    /\ \A i \in 1..10 : auth.accepted["chainsure_test_key_2024"][i] = 0
    /\ auth.rate_limit_storage["chainsure_test_key_2024"]
         = auth.accepted["chainsure_test_key_2024"]

\* a request has just gone through get_client_info
ClientInfoAsked == auth.last.op = "get_client_info"

\* C24: get_client_info returns client information only for an API key that
\* verify_api_key accepted; a request with an API key that matches none of
\* the configured keys, or with a key whose rate limit is exceeded, is
\* rejected (401 or 429) and never obtains client information.
C24_ClientInfoOnlyForAcceptedKey ==
    ClientInfoAsked =>
        /\ auth.last.returned # None =>
               /\ auth.last.api_key \in ConfiguredKeys
               /\ auth.last.verified = 0
        /\ auth.last.api_key \notin ConfiguredKeys =>
               (auth.last.raised = 401 /\ auth.last.returned = None)
        /\ (auth.last.api_key \in ConfiguredKeys
             /\ HeldBefore >= RateLimitOf(auth.last.api_key)) =>
               (auth.last.raised = 429 /\ auth.last.returned = None)

-----------------------------------------------------------------------------
(* Properties of the endpoint handlers, checked under HttpSpec *)

\* a request to the endpoint has been answered
Answered(endpoint) == http.called /\ http.endpoint = endpoint

\* C25: the HTTP status an endpoint handler raises reaches the client
\* unchanged: analyze-claim answers 503 when the fraud service is missing or
\* not ready, process-document answers 413 for a file above the size limit
\* and 503 when OCR is not ready, analyze-image answers 400 for a non-image
\* upload, 413 for an oversized file and 503 when the image service is not
\* ready.
C25_RaisedStatusReachesClient ==
    /\ (http.called /\ http.answer.raised \in {400, 413, 503}) =>
           http.answer.status = http.answer.raised
    /\ (Answered("/analyze-claim") /\ not_available(services.fraud_service)) =>
           http.answer.status = 503
    /\ (Answered("/process-document") /\ http.content_length > max_file_size) =>
           http.answer.status = 413
    /\ (Answered("/process-document") /\ http.content_length <= max_file_size
          /\ not_available(services.ocr_service)) =>
           http.answer.status = 503
    /\ (Answered("/analyze-image") /\ ~http.content_type.image) =>
           http.answer.status = 400
    /\ (Answered("/analyze-image") /\ http.content_type.image
          /\ http.content_length > max_file_size) =>
           http.answer.status = 413
    /\ (Answered("/analyze-image") /\ http.content_type.image
          /\ http.content_length <= max_file_size
          /\ not_available(services.image_service)) =>
           http.answer.status = 503

-----------------------------------------------------------------------------
(* Properties of the fraud report, checked under FraudSpec *)

\* analyze_text has returned a report that carries a recommendation
Recommended ==
    FraudCall /\ ~FraudErrorPath /\ "recommendation" \in DOMAIN fraud.result

\* C27: the recommendation low_risk_approve is returned only for reports in
\* which at least one monetary amount was extracted from the narrative and
\* the narrative is longer than 50 characters (and fraud_score < 0.3); with
\* no extracted amount, or with text of 50 characters or fewer, the
\* confidence is at most 2/3 and low_risk_approve is unreachable.
C27_ApproveNeedsAmountAndLongText ==
    Recommended =>
        /\ fraud.result["recommendation"] = "low_risk_approve" =>
               /\ Len(fraud.result["feature_analysis"]["extracted_amounts"]) > 0
               /\ TextLen(fraud.text.phrases) > 50
               /\ fraud.result["fraud_score"] < 3000
        /\ ( \/ Len(fraud.result["feature_analysis"]["extracted_amounts"]) = 0
             \/ TextLen(fraud.text.phrases) <= 50 ) =>
               /\ fraud.result["confidence"] * 3 <= 2 * Scale
               /\ fraud.result["recommendation"] # "low_risk_approve"

\* C27, its case: a narrative of more than 50 characters with an amount in
\* it and a score under 0.3 is approved
C27_Witness ==
    /\ Recommended
    /\ fraud.result["recommendation"] = "low_risk_approve"
    /\ Len(fraud.result["feature_analysis"]["extracted_amounts"]) > 0
    /\ TextLen(fraud.text.phrases) > 50
    /\ fraud.result["confidence"] > 7000

\* the band of amounts of the claim type of the call: that of health for a
\* claim type that has none
Band ==
    IF fraud.claim_type \in DOMAIN amount_thresholds
    THEN amount_thresholds[fraud.claim_type] ELSE amount_thresholds["health"]

\* the report of the call names the risk factor
HasRiskFactor(risk_factor) ==
    \E i \in 1..Len(fraud.result["risk_factors"]) : fraud.result["risk_factors"][i] = risk_factor

\* C28: the risk factor unusual_amount appears in a fraud report exactly
\* when the claimed amount is strictly above the high threshold of the claim
\* type's band: a claimed amount below the low threshold (anomaly score 0.3)
\* or inside the band (anomaly score at most 0.2) never yields
\* unusual_amount.
C28_UnusualAmountIffAboveHigh ==
    Recommended =>
        /\ HasRiskFactor("unusual_amount") <=> fraud.requested_amount > Band.high
        /\ fraud.requested_amount < Band.low =>
               fraud.result["feature_analysis"]["amount_anomaly_score"] = 3000
        /\ (fraud.requested_amount >= Band.low /\ fraud.requested_amount <= Band.high) =>
               fraud.result["feature_analysis"]["amount_anomaly_score"] <= 2000

\* C28, its case: a health claim of 60000, above the high threshold 50000,
\* is reported with unusual_amount
C28_Witness ==
    /\ Recommended
    /\ fraud.claim_type = "health"
    /\ fraud.requested_amount = 60000
    /\ fraud.requested_amount > Band.high
    /\ HasRiskFactor("unusual_amount")
    /\ fraud.result["feature_analysis"]["amount_anomaly_score"] = 8000

-----------------------------------------------------------------------------
(* Properties of the attributes of a FraudDetectionService instance, checked
   under FraudServiceSpec *)

\* C29: no operation of FraudDetectionService writes fraud_cache,
\* fraud_keywords, suspicious_patterns or amount_thresholds after
\* construction: after any sequence of initialize, analyze_text and
\* update_model calls, fraud_cache is still empty and get_fraud_statistics
\* reports total_analyses 0, high_risk_count 0, low_risk_count 0 and
\* average_fraud_score 0.0.
C29_CacheAndTablesStayAsConstructed ==
    /\ services.fraud_service.fraud_cache = new_fraud_service.fraud_cache
    /\ DOMAIN services.fraud_service.fraud_cache = {}
    /\ services.fraud_service.fraud_keywords = new_fraud_service.fraud_keywords
    /\ services.fraud_service.suspicious_patterns = new_fraud_service.suspicious_patterns
    /\ services.fraud_service.amount_thresholds = new_fraud_service.amount_thresholds
    /\ (fraud.called /\ fraud.op = "get_fraud_statistics") =>
           /\ fraud.result.total_analyses = 0
           /\ fraud.result.high_risk_count = 0
           /\ fraud.result.low_risk_count = 0
           /\ fraud.result.average_fraud_score = 0

\* C29, its case: get_fraud_statistics is called after initialize,
\* analyze_text and update_model have all been called, on a ready instance
C29_Witness ==
    /\ fraud.called /\ fraud.op = "get_fraud_statistics"
    /\ {"initialize", "analyze_text", "update_model"} \subseteq fraud.history
    /\ services.fraud_service.model_ready
    /\ fraud.result.total_analyses = 0
    /\ fraud.result.model_ready
=============================================================================
